---- MODULE Spec2Model ----
(***************************************************************************)
(* A model of the Tempo -> Unit4 reconciliation tool (cdds-ab/j2u4):       *)
(* the reconciliation driver sync() of sync_tempo_to_unit4.py with the     *)
(* extraction, deletion and creation steps it runs against the remote      *)
(* grid, and the Unit4Browser class of unit4_browser.py.                   *)
(*                                                                         *)
(* The remote UI is the environment: whether a control is found, whether a *)
(* bulk delete removes the selected rows and whether a form fill succeeds  *)
(* are nondeterministic choices at the places where the code branches on   *)
(* them.                                                                   *)
(***************************************************************************)
EXTENDS Integers, Sequences, FiniteSets, TLC

\* ------------------------------------------------------------------ bounds
\* Number of valid worklogs of the week (ids 1..MaxWl).
MaxWl == 2
\* Number of marked rows the grid may hold before the first run.
MaxInitRows == 1
\* Number of frames of the page.
MaxFrames == 2
\* The years of the period codes get_week_dates() is called with.
FirstYear == 2024
LastYear == 2027
\* The longest text the marker pattern is searched in, in pieces.
MaxPieces == 4
\* The longest worklog looked at, in minutes.
MaxMinutes == 90
\* The largest max_attempts retry_async() is called with.
MaxAttemptsArg == 3
\* The most pieces a worklog description is put together from.
MaxDescriptionPieces == 2

\* --------------------------------------------------------------- variables
VARIABLES
    run,              \* 1: the first run of sync(), 2: the following run
    pc,               \* position of the current run inside sync()
    execute,          \* sync(execute=...): FALSE is dry-run
    locked,           \* a locked-status label is visible on the period
    valid_worklogs,   \* sync(): valid_worklogs (after the prompt step)
    grid,             \* the remote grid: rows in DOM order
    existing_entries, \* sync(): existing_entries
    remaining,        \* sync(): remaining (re-scan of a retry pass)
    marked_count,     \* sync(): marked_count / marked
    delete_pass,      \* sync(): delete_pass
    idx,              \* index of the next worklog of the creation loop
    errors,           \* sync(): errors (ids of the worklogs whose create failed)
    issued,           \* kinds of mutating UI actions issued in this run
    cycles,           \* bulk-delete cycles (mark, delete, save) of this run
    submitted,        \* ids of the entries handed to the first marking loop
    report,           \* what the run printed: intended / done deletions, creations
    fault,            \* the remote UI refused or lost an action in this run
    first,            \* how the first run ended (set when the second starts)
    \* Unit4Browser.extract_entries()
    frames_to_search, \* number of frames of the page (0: no call under way)
    frame_no,         \* index of the frame being searched
    strategy,         \* the strategy that runs next in that frame
    seen_wl_ids,      \* extract_entries(): seen_wl_ids
    page_entries,     \* extract_entries(): entries
    delivered,        \* marker ids the locator queries have delivered so far
    repeated,         \* marker ids delivered more than once
    titled,           \* marker ids delivered from a title in this frame
    both,             \* marker ids delivered from a title and from the text of a frame
    \* add_unit4_entry() / Unit4Browser.create_entry()
    impl,             \* which of the two functions is called
    step,             \* position inside the call
    dry_run_arg,      \* the dry_run argument
    worklog,          \* the worklog argument
    trace,            \* UI actions the call has carried out, in order
    fill_no,          \* index of the next labeled-field fill
    arbauft_ok, aktivitaet_ok, text_ok, ticketno_ok,
    tries,            \* iterations of the closure check done
    result,           \* the returned value ("none" before the return)
    dialog_open,      \* the detail dialog is open
    \* set_week() / Unit4Browser.set_week()
    sw_impl,          \* which of the two functions is called
    sw_call,          \* 1: the call of sync(), 2: its "try one more time" call
    sw_step,          \* position inside the call
    attempt,          \* set_week(): attempt
    week_input,       \* index of the strategy that gave week_input (0: None)
    history,          \* how the attempts of the call ended, in order
    refreshed,        \* attempts that began with the re-resolution of the content frame
    sw_result,        \* the returned value ("none" before the return)
    \* Unit4Browser.wait_for_ready() / the readiness loop of sync()
    rd_impl,          \* which of the two loops runs
    rd_step,          \* position inside the loop
    rd_i,             \* the loop variable i
    page_labels,      \* the status texts visible in the frame at this poll
    page_add,         \* the add-row control is visible at this poll
    page_detached,    \* the frame is gone at this poll (every lookup raises)
    checks,           \* the checks made in this poll, in order
    earlier_label,    \* an earlier poll of the call had a status text visible
    earlier_add,      \* an earlier poll of the call had the add-row control visible
    rd_result,        \* what the loop handed to its caller ("none" before)
    rd_outcome,       \* how the loop ended ("none" before)
    \* fill_hours_by_date() / Unit4Browser._fill_hours_by_date()
    fh_impl,          \* which of the two functions is called
    fh_step,          \* position inside the call
    fh_attempt,       \* fill_hours_by_date(): attempt
    fh_trace,         \* what the current attempt did so far, in order
    fh_history,       \* how the attempts of the call ended, in order
    fh_manual,        \* the operator was asked to enter the hours by hand
    fh_result,        \* the returned value ("none" before the return)
    \* sync(): the read side (fetch, process_worklogs, ask_for_arbauft)
    pp_step,          \* position inside sync() before the browser is started
    pp_i,             \* index of the loop under way
    mapping,          \* the account-to-arbauft dict in memory
    mapping_file,     \* the mapping file on disk
    raw_worklogs,     \* what fetch_tempo_worklogs() returned
    issue_cache,      \* process_worklogs(): issue_cache
    pp_valid,         \* valid_worklogs of the read side
    unmapped_worklogs,\* process_worklogs(): unmapped_worklogs
    prompts,          \* the prompts made so far with their answers, in order
    failed_lookups,   \* issue ids whose lookup came back with a status other than 200
    lookups,          \* the issue ids fetch_jira_issue() was called with, in order
    \* get_week_dates()
    week_arg,         \* the period code the function is called with
    date_range,       \* the pair of texts it returned (<<>> before the return)
    \* Patterns.WORKLOG_MARKER.search()
    mk_text,          \* the text searched
    mk_searched,      \* the search was made
    mk_found,         \* group(1) of the match (<<>>: no match, None)
    \* Patterns.DAY_DATE.match()
    dd_parts,         \* the parts the label is written from
    dd_matched,       \* the match was made
    dd_groups,        \* the three groups of the match (<<>>: no match, None)
    \* FrameManager.get_content_frame()
    page_frames,      \* page.frames: what each frame is, the main frame first
    content_frame,    \* self._content_frame (0: None), an index of page.frames
    fm_calls,         \* the calls made so far
    fm_reloaded,      \* the page replaced its frames since the first call
    fm_from_cache,    \* the last call answered from self._content_frame
    fm_result,        \* the frame the last call returned (0: no call since the
                      \* page was loaded)
    \* login_and_navigate() / Unit4Browser.navigate_to_zeiterfassung()
    cn_impl,          \* which of the two functions is called
    cn_step,          \* position inside the call
    cn_title,         \* the words of the page title
    cn_title_raises,  \* page.title() raises
    session_before,   \* the session file when the call began
    session_file,     \* the session file
    cn_trace,         \* what the call did so far, in order
    cn_i,             \* the loop variable i of the wait for the period input
    cn_resolved,      \* how often the loop resolved the content frame
    cn_frame,         \* the frame the last resolution gave (0: none yet)
    cn_seen,          \* the period input was visible in the last poll
    cn_result,        \* the frame returned (0: none), -1 for an exception
    \* the hours of a worklog, from process_worklogs() to fill_hours_by_date()
    hr_step,          \* "raw", "processed", "typed"
    hr_seconds,       \* wl["timeSpentSeconds"]
    hr_hours,         \* TempoWorklog.hours, as a fraction
    hr_typed,         \* hours_str, the text typed into the cell
    \* read_zeitdetails_structure() and the row fill_hours_by_date() takes
    rs_impl,          \* the function that runs
    rs_step,          \* "rendered", "read", "selected"
    rs_now,           \* datetime.now(): year and month
    rs_target,        \* the ordinal of the worklog's date
    rs_render,        \* how the page writes its day labels
    date_to_label,    \* date_to_label: pairs of date_str and label, as set
    rs_selected,      \* day_label (<<>>: the date is not in date_to_label)
    \* retry_async()
    ra_max,           \* max_attempts
    ra_on_retry,      \* an on_retry callback was passed
    ra_attempt,       \* attempt, the loop variable
    ra_step,          \* "loop", "returned"
    ra_trace,         \* the calls made: operation, on_retry, sleep
    ra_result,        \* what the call returned
    \* Unit4Browser.delete_entries()
    de_dry_run,       \* the dry_run argument
    de_count,         \* len(entries)
    de_step,          \* "call", "mark", "confirm", "delete", "returned"
    de_i,             \* the entry the marking loop is at
    de_clicked,       \* the entries whose checkbox was clicked
    de_marked_count,  \* marked_count
    de_trace,         \* the controls invoked
    de_gone,          \* the entries whose row the remote UI removed
    de_result,        \* the value returned (-1: none yet)
    \* Unit4Browser.save() and the "[8] Saving..." block of sync()
    sv_impl,          \* the code that runs
    sv_step,          \* "frame", "page", "keyboard", "saved", "ok_page", "returned"
    sv_controls,      \* the controls the remote UI shows
    sv_saved,         \* saved
    sv_trace,         \* the controls tried and the keys pressed
    sv_dialog,        \* an OK dialog is open
    \* the Text field, from create_entry() to _parse_text_to_entry()
    rt_step,          \* "worklog", "written", "parsed"
    rt_id,            \* worklog.worklog_id
    rt_description,   \* worklog.description
    rt_summary,       \* worklog.issue_summary
    rt_text,          \* text, as it is typed into the Text field
    rt_parsed         \* worklog_id of the extractor (-1: no marker found)

syncVars == <<run, pc, execute, locked, valid_worklogs, grid, existing_entries,
              remaining, marked_count, delete_pass, idx, errors, issued,
              cycles, submitted, report, fault, first>>

extractVars == <<frames_to_search, frame_no, strategy, seen_wl_ids, page_entries,
                 delivered, repeated, titled, both>>

createVars == <<impl, step, dry_run_arg, worklog, trace, fill_no, arbauft_ok,
                aktivitaet_ok, text_ok, ticketno_ok, tries, result, dialog_open>>

weekVars == <<sw_impl, sw_call, sw_step, attempt, week_input, history, refreshed,
              sw_result>>

readyVars == <<rd_impl, rd_step, rd_i, page_labels, page_add, page_detached, checks,
               earlier_label, earlier_add, rd_result, rd_outcome>>

hoursVars == <<fh_impl, fh_step, fh_attempt, fh_trace, fh_history, fh_manual,
               fh_result>>

prepareVars == <<pp_step, pp_i, mapping, mapping_file, raw_worklogs, issue_cache,
                 pp_valid, unmapped_worklogs, prompts, failed_lookups, lookups>>

datesVars == <<week_arg, date_range>>

markerVars == <<mk_text, mk_searched, mk_found>>

dayDateVars == <<dd_parts, dd_matched, dd_groups>>

frameVars == <<page_frames, content_frame, fm_calls, fm_reloaded, fm_from_cache,
               fm_result>>

connectVars == <<cn_impl, cn_step, cn_title, cn_title_raises, session_before,
                 session_file, cn_trace, cn_i, cn_resolved, cn_frame, cn_seen, cn_result>>

hoursTextVars == <<hr_step, hr_seconds, hr_hours, hr_typed>>

rowVars == <<rs_impl, rs_step, rs_now, rs_target, rs_render, date_to_label,
             rs_selected>>

retryVars == <<ra_max, ra_on_retry, ra_attempt, ra_step, ra_trace, ra_result>>

deleteVars == <<de_dry_run, de_count, de_step, de_i, de_clicked, de_marked_count,
                de_trace, de_gone, de_result>>

saveVars == <<sv_impl, sv_step, sv_controls, sv_saved, sv_trace, sv_dialog>>

roundTripVars == <<rt_step, rt_id, rt_description, rt_summary, rt_text, rt_parsed>>

\* What the actions of one part leave alone.
browserVars == <<extractVars, createVars, weekVars, readyVars, hoursVars, prepareVars, datesVars, markerVars, dayDateVars, frameVars, connectVars, hoursTextVars, rowVars, retryVars, deleteVars, saveVars, roundTripVars>>
notExtractVars == <<syncVars, createVars, weekVars, readyVars, hoursVars, prepareVars, datesVars, markerVars, dayDateVars, frameVars, connectVars, hoursTextVars, rowVars, retryVars, deleteVars, saveVars, roundTripVars>>
notCreateVars == <<syncVars, extractVars, weekVars, readyVars, hoursVars, prepareVars, datesVars, markerVars, dayDateVars, frameVars, connectVars, hoursTextVars, rowVars, retryVars, deleteVars, saveVars, roundTripVars>>
notWeekVars == <<syncVars, extractVars, createVars, readyVars, hoursVars, prepareVars, datesVars, markerVars, dayDateVars, frameVars, connectVars, hoursTextVars, rowVars, retryVars, deleteVars, saveVars, roundTripVars>>
notReadyVars == <<syncVars, extractVars, createVars, weekVars, hoursVars, prepareVars, datesVars, markerVars, dayDateVars, frameVars, connectVars, hoursTextVars, rowVars, retryVars, deleteVars, saveVars, roundTripVars>>
notHoursVars == <<syncVars, extractVars, createVars, weekVars, readyVars, prepareVars, datesVars, markerVars, dayDateVars, frameVars, connectVars, hoursTextVars, rowVars, retryVars, deleteVars, saveVars, roundTripVars>>
notPrepareVars == <<syncVars, extractVars, createVars, weekVars, readyVars, hoursVars, datesVars, markerVars, dayDateVars, frameVars, connectVars, hoursTextVars, rowVars, retryVars, deleteVars, saveVars, roundTripVars>>
notDatesVars == <<syncVars, extractVars, createVars, weekVars, readyVars, hoursVars, prepareVars, markerVars, dayDateVars, frameVars, connectVars, hoursTextVars, rowVars, retryVars, deleteVars, saveVars, roundTripVars>>
notMarkerVars == <<syncVars, extractVars, createVars, weekVars, readyVars, hoursVars, prepareVars, datesVars, dayDateVars, frameVars, connectVars, hoursTextVars, rowVars, retryVars, deleteVars, saveVars, roundTripVars>>
notDayDateVars == <<syncVars, extractVars, createVars, weekVars, readyVars, hoursVars, prepareVars, datesVars, markerVars, frameVars, connectVars, hoursTextVars, rowVars, retryVars, deleteVars, saveVars, roundTripVars>>
notFrameVars == <<syncVars, extractVars, createVars, weekVars, readyVars, hoursVars, prepareVars, datesVars, markerVars, dayDateVars, connectVars, hoursTextVars, rowVars, retryVars, deleteVars, saveVars, roundTripVars>>
notConnectVars == <<syncVars, extractVars, createVars, weekVars, readyVars, hoursVars, prepareVars, datesVars, markerVars, dayDateVars, frameVars, hoursTextVars, rowVars, retryVars, deleteVars, saveVars, roundTripVars>>
notHoursTextVars == <<syncVars, extractVars, createVars, weekVars, readyVars, hoursVars, prepareVars, datesVars, markerVars, dayDateVars, frameVars, connectVars, rowVars, retryVars, deleteVars, saveVars, roundTripVars>>
notRowVars == <<syncVars, extractVars, createVars, weekVars, readyVars, hoursVars, prepareVars, datesVars, markerVars, dayDateVars, frameVars, connectVars, hoursTextVars, retryVars, deleteVars, saveVars, roundTripVars>>
notRetryVars == <<syncVars, extractVars, createVars, weekVars, readyVars, hoursVars, prepareVars, datesVars, markerVars, dayDateVars, frameVars, connectVars, hoursTextVars, rowVars, deleteVars, saveVars, roundTripVars>>
notDeleteVars == <<syncVars, extractVars, createVars, weekVars, readyVars, hoursVars, prepareVars, datesVars, markerVars, dayDateVars, frameVars, connectVars, hoursTextVars, rowVars, retryVars, saveVars, roundTripVars>>
notSaveVars == <<syncVars, extractVars, createVars, weekVars, readyVars, hoursVars, prepareVars, datesVars, markerVars, dayDateVars, frameVars, connectVars, hoursTextVars, rowVars, retryVars, deleteVars, roundTripVars>>
notRoundTripVars == <<syncVars, extractVars, createVars, weekVars, readyVars, hoursVars, prepareVars, datesVars, markerVars, dayDateVars, frameVars, connectVars, hoursTextVars, rowVars, retryVars, deleteVars, saveVars>>

vars == <<syncVars, extractVars, createVars, weekVars, readyVars, hoursVars, prepareVars, datesVars, markerVars, dayDateVars, frameVars, connectVars, hoursTextVars, rowVars, retryVars, deleteVars, saveVars, roundTripVars>>

\* ------------------------------------------------------------------- texts
\* A text is a sequence of one-character strings.
Upper == {"A", "B", "C", "D", "I"}
Digit == {"0", "1", "2", "3", "4", "5", "6", "7", "8", "9"}

\* Patterns.TICKET_KEY, ([A-Z]{3,10}-\d+), searched anywhere in the text:
\* a hyphen with at least three capitals before it and a digit after it.
TicketKeySearch(text) ==
    \E p \in 4..(Len(text) - 1) :
        /\ text[p] = "-"
        /\ text[p + 1] \in Digit
        /\ \A k \in 1..3 : text[p - k] \in Upper

\* A cost-code text is kept as its digit groups, the groups being separated
\* by hyphens. Patterns.ARBAUFT, (\d{4}-\d{5}-\d{3}), searched anywhere in
\* the text: the first group may be longer on its left, the last longer on
\* its right.
ArbauftSearch(groups) ==
    \E i \in 1..(Len(groups) - 2) :
        /\ Len(groups[i]) >= 4
        /\ Len(groups[i + 1]) = 5
        /\ Len(groups[i + 2]) >= 3

\* Issue keys a worklog can carry: a resolved key, and the placeholder
\* process_worklogs() builds when the issue lookup returns nothing.
KeyResolved == <<"A", "B", "C", "-", "1">>
KeyPlaceholder == <<"I", "D", ":", "7">>
IssueKeys == {KeyResolved, KeyPlaceholder}

\* The cost-code the mapping store gives (validated at the prompt).
CodeMapped == <<<<"1", "2", "3", "4">>, <<"5", "6", "7", "8", "9">>, <<"0", "0", "1">>>>

\* ------------------------------------------------------------------- rows
\* Where a row carries its marker: in a cell's title attribute, in the
\* visible row text, or in both.
MarkerPlaces == {"title", "both"}

InTitle(r) == r.place \in {"title", "both"}
InText(r) == r.place \in {"text", "both"}

Row(id, key, code, place) ==
    [wl |-> id, ticket |-> key, arbauft |-> code, place |-> place, sel |-> FALSE]

Worklog(id, key) == [worklog_id |-> id, issue_key |-> key, arbauft |-> CodeMapped]

\* The marker id of a worklog that is no longer in the week.
StaleId == MaxWl + 1

\* Marked rows left in the grid by earlier weeks' runs: rows of the stale id,
\* the marker in the title alone (the visible text is cut) or in both.
LegacyRows == {Row(StaleId, KeyResolved, CodeMapped, place) : place \in MarkerPlaces}

RECURSIVE SeqsUpTo(_, _)
SeqsUpTo(S, n) ==
    IF n = 0 THEN {<<>>}
    ELSE LET shorter == SeqsUpTo(S, n - 1)
         IN  shorter \cup {Append(s, x) : s \in {t \in shorter : Len(t) = n - 1}, x \in S}

\* The worklog lists of a week: ids 1..n in order; the first worklog has a
\* resolved issue key or the placeholder key, the others a resolved one.
WorklogLists ==
    {<<>>} \cup
    {[i \in 1..n |-> Worklog(i, IF i = 1 THEN key ELSE KeyResolved)] :
        n \in 1..MaxWl, key \in IssueKeys}

RowIds(rows) == {rows[i].wl : i \in 1..Len(rows)}
CountOf(rows, id) == Cardinality({i \in 1..Len(rows) : rows[i].wl = id})

Remove(rows, gone) ==
    LET keep(i) == i \notin gone
        F[i \in 0..Len(rows)] ==
            IF i = 0 THEN <<>>
            ELSE IF keep(i) THEN Append(F[i - 1], rows[i]) ELSE F[i - 1]
    IN  F[Len(rows)]

\* --------------------------------------------------------------- extraction
\* extract_unit4_entries(): every tr in DOM order; the row text is the inner
\* text plus the first title that holds a marker; the first marker of the text
\* is the id; an id already seen is skipped; the id is recorded as seen before
\* the ticket key and the cost-code are looked for, and the entry is appended
\* only when both are found.
EntryKept(r) == TicketKeySearch(r.ticket) /\ ArbauftSearch(r.arbauft)

ExtractUnit4Entries(rows) ==
    LET F[i \in 0..Len(rows)] ==
            IF i = 0 THEN [seen |-> {}, entries |-> <<>>]
            ELSE LET acc == F[i - 1]
                     r == rows[i]
                 IN  IF ~(InTitle(r) \/ InText(r)) THEN acc
                     ELSE IF r.wl \in acc.seen THEN acc
                     ELSE [seen |-> acc.seen \cup {r.wl},
                           entries |->
                               IF EntryKept(r)
                               THEN Append(acc.entries,
                                           [worklog_id |-> r.wl, ticketno |-> r.ticket,
                                            arbauft |-> r.arbauft])
                               ELSE acc.entries]
    IN  F[Len(rows)].entries

EntryIds(entries) == {entries[i].worklog_id : i \in 1..Len(entries)}

\* ------------------------------------------------------------------ marking
\* locator(...).first: the first match in DOM order (0: no match).
FirstIndex(S) == IF S = {} THEN 0 ELSE CHOOSE i \in S : \A j \in S : i <= j

TitleMatches(rows, id) == {i \in 1..Len(rows) : rows[i].wl = id /\ InTitle(rows[i])}
TextMatches(rows, id) == {i \in 1..Len(rows) : rows[i].wl = id /\ InText(rows[i])}

\* sync(), first deletion pass: the row of an entry is the row of the first
\* cell whose title holds the marker, else of the first element whose title
\* holds it, else the first row whose text holds it (0: row not found).
LocateRow(rows, id) ==
    LET byCellTitle == FirstIndex(TitleMatches(rows, id))
        byAnyTitle == FirstIndex(TitleMatches(rows, id))
        byText == FirstIndex(TextMatches(rows, id))
    IN  IF byCellTitle # 0 THEN byCellTitle
        ELSE IF byAnyTitle # 0 THEN byAnyTitle
        ELSE byText

\* sync(), retry passes: only the first row whose text holds the marker.
LocateRowRetry(rows, id) == FirstIndex(TextMatches(rows, id))

\* checkbox.evaluate("el => { el.scrollIntoView(...); el.click(); }"): a click
\* on a checkbox toggles it.
ClickCheckbox(rows, i) == [rows EXCEPT ![i].sel = ~rows[i].sel]

ValidIds == {valid_worklogs[i].worklog_id : i \in 1..Len(valid_worklogs)}

\* Mutant of MarkEntries: a diffing policy, which leaves alone the entries
\* whose marker id is the id of a current valid worklog.
MarkEntriesDiffing(rows, entries, retry) ==
    LET F[k \in 0..Len(entries)] ==
            IF k = 0 THEN [rows |-> rows, marked |-> 0, tried |-> {}]
            ELSE LET acc == F[k - 1]
                     id == entries[k].worklog_id
                     i == IF retry THEN LocateRowRetry(acc.rows, id)
                          ELSE LocateRow(acc.rows, id)
                 IN  IF id \in ValidIds THEN acc
                     ELSE IF i = 0 THEN [acc EXCEPT !.tried = acc.tried \cup {id}]
                     ELSE [rows |-> ClickCheckbox(acc.rows, i),
                           marked |-> acc.marked + 1,
                           tried |-> acc.tried \cup {id}]
    IN  F[Len(entries)]

\* The marking loop over a list of entries (retry: the loop of a retry pass):
\* the grid after it, the number of checkboxes clicked and the ids of the
\* entries the loop took up.
MarkEntries(rows, entries, retry) ==
    LET F[k \in 0..Len(entries)] ==
            IF k = 0 THEN [rows |-> rows, marked |-> 0, tried |-> {}]
            ELSE LET acc == F[k - 1]
                     id == entries[k].worklog_id
                     i == IF retry THEN LocateRowRetry(acc.rows, id)
                          ELSE LocateRow(acc.rows, id)
                 IN  IF i = 0 THEN [acc EXCEPT !.tried = acc.tried \cup {id}]
                     ELSE [rows |-> ClickCheckbox(acc.rows, i),
                           marked |-> acc.marked + 1,
                           tried |-> acc.tried \cup {id}]
    IN  F[Len(entries)]

Selected(rows) == {i \in 1..Len(rows) : rows[i].sel}

\* The remote effect of the bulk-delete control with its confirmation: the
\* selected rows outside `stay` disappear; the rows that stay keep their
\* selection when the grid is not rendered anew.
BulkDeleteEffect(rows, stay, keepSel) ==
    LET after == [i \in 1..Len(rows) |->
                     IF rows[i].sel /\ ~keepSel THEN [rows[i] EXCEPT !.sel = FALSE]
                     ELSE rows[i]]
    IN  Remove(after, Selected(rows) \ stay)

\* A new page load shows no row selected.
FreshPage(rows) == [i \in 1..Len(rows) |-> [rows[i] EXCEPT !.sel = FALSE]]

NoReport == [wouldDelete |-> 0, wouldCreate |-> 0, deleted |-> 0, created |-> 0]
NoFirst == [ended |-> "none", execute |-> FALSE]

MutationPcs == {"mark", "confirm", "bulk", "rescan", "remark", "rebulk", "create"}

\* Mutant of RescanPasses: one more retry pass.
RescanPassesMore == 3 + 1

\* sync(): for delete_pass in range(3).
RescanPasses == 3

\* ------------------------------------------------------------------- sync()
\* No extract_entries() call is under way.
ExtractIdle ==
    /\ frames_to_search = 0
    /\ frame_no = 0
    /\ strategy = "none"
    /\ seen_wl_ids = {}
    /\ page_entries = <<>>
    /\ delivered = {}
    /\ repeated = {}
    /\ titled = {}
    /\ both = {}

\* No create call is under way.
CreateIdle ==
    /\ impl = "none"
    /\ step = "none"
    /\ dry_run_arg = FALSE
    /\ worklog = <<>>
    /\ trace = <<>>
    /\ fill_no = 0
    /\ arbauft_ok = FALSE
    /\ aktivitaet_ok = FALSE
    /\ text_ok = FALSE
    /\ ticketno_ok = FALSE
    /\ tries = 0
    /\ result = "none"
    /\ dialog_open = FALSE

\* No set_week() call is under way.
WeekIdle ==
    /\ sw_impl = "none"
    /\ sw_call = 0
    /\ sw_step = "none"
    /\ attempt = 0
    /\ week_input = 0
    /\ history = <<>>
    /\ refreshed = {}
    /\ sw_result = "none"

\* No readiness loop is under way.
ReadyIdle ==
    /\ rd_impl = "none"
    /\ rd_step = "none"
    /\ rd_i = 0
    /\ page_labels = {}
    /\ page_add = FALSE
    /\ page_detached = FALSE
    /\ checks = <<>>
    /\ earlier_label = FALSE
    /\ earlier_add = FALSE
    /\ rd_result = "none"
    /\ rd_outcome = "none"

\* No fill_hours_by_date() call is under way.
HoursIdle ==
    /\ fh_impl = "none"
    /\ fh_step = "none"
    /\ fh_attempt = 0
    /\ fh_trace = <<>>
    /\ fh_history = <<>>
    /\ fh_manual = FALSE
    /\ fh_result = "none"

\* The read side of sync() is not under way.
PrepareIdle ==
    /\ pp_step = "none"
    /\ pp_i = 0
    /\ mapping = <<>>
    /\ mapping_file = <<>>
    /\ raw_worklogs = <<>>
    /\ issue_cache = <<>>
    /\ pp_valid = <<>>
    /\ unmapped_worklogs = <<>>
    /\ prompts = <<>>
    /\ failed_lookups = {}
    /\ lookups = <<>>

\* No get_week_dates() call is under way.
DatesIdle ==
    /\ week_arg = <<>>
    /\ date_range = <<>>

\* No search for the marker is under way.
MarkerIdle ==
    /\ mk_text = <<>>
    /\ mk_searched = FALSE
    /\ mk_found = <<>>

\* No match of a day label is under way.
DayDateIdle ==
    /\ dd_parts = <<>>
    /\ dd_matched = FALSE
    /\ dd_groups = <<>>

\* No frame manager is in use.
FrameIdle ==
    /\ page_frames = <<>>
    /\ content_frame = 0
    /\ fm_calls = 0
    /\ fm_reloaded = FALSE
    /\ fm_from_cache = FALSE
    /\ fm_result = 0

\* No login_and_navigate() call is under way.
ConnectIdle ==
    /\ cn_impl = "none"
    /\ cn_step = "none"
    /\ cn_title = <<>>
    /\ cn_title_raises = FALSE
    /\ session_before = "none"
    /\ session_file = "none"
    /\ cn_trace = <<>>
    /\ cn_i = 0
    /\ cn_resolved = 0
    /\ cn_frame = 0
    /\ cn_seen = FALSE
    /\ cn_result = 0

\* No worklog's hours are under way.
HoursTextIdle ==
    /\ hr_step = "none"
    /\ hr_seconds = 0
    /\ hr_hours = [num |-> 0, den |-> 1]
    /\ hr_typed = <<>>

\* No day row is looked for.
RowIdle ==
    /\ rs_impl = "none"
    /\ rs_step = "none"
    /\ rs_now = [year |-> 0, month |-> 0]
    /\ rs_target = 0
    /\ rs_render = [locale |-> "none", sep |-> "none", day_first |-> FALSE]
    /\ date_to_label = <<>>
    /\ rs_selected = <<>>

\* No retry_async() call is under way.
RetryIdle ==
    /\ ra_max = 0
    /\ ra_on_retry = FALSE
    /\ ra_attempt = 0
    /\ ra_step = "none"
    /\ ra_trace = <<>>
    /\ ra_result = "none"

\* No delete_entries() call is under way.
DeleteIdle ==
    /\ de_dry_run = FALSE
    /\ de_count = 0
    /\ de_step = "none"
    /\ de_i = 0
    /\ de_clicked = {}
    /\ de_marked_count = 0
    /\ de_trace = <<>>
    /\ de_gone = {}
    /\ de_result = -1

\* No save is under way.
SaveIdle ==
    /\ sv_impl = "none"
    /\ sv_step = "none"
    /\ sv_controls = [frame_save |-> FALSE, page_save |-> FALSE, ok_dialog |-> "none"]
    /\ sv_saved = FALSE
    /\ sv_trace = <<>>
    /\ sv_dialog = FALSE

\* No Text field is under way.
RoundTripIdle ==
    /\ rt_step = "none"
    /\ rt_id = 0
    /\ rt_description = <<>>
    /\ rt_summary = <<>>
    /\ rt_text = <<>>
    /\ rt_parsed = -1

\* No sync() run is under way.
SyncIdle ==
    /\ run = 0
    /\ pc = "none"
    /\ execute = FALSE
    /\ locked = FALSE
    /\ valid_worklogs = <<>>
    /\ grid = <<>>
    /\ existing_entries = <<>>
    /\ remaining = <<>>
    /\ marked_count = 0
    /\ delete_pass = 0
    /\ idx = 1
    /\ errors = {}
    /\ issued = {}
    /\ cycles = 0
    /\ submitted = {}
    /\ report = NoReport
    /\ fault = FALSE
    /\ first = NoFirst

SyncInit ==
    /\ run = 1
    /\ pc = "start"
    /\ execute \in BOOLEAN
    /\ locked \in BOOLEAN
    /\ valid_worklogs \in WorklogLists
    /\ grid \in SeqsUpTo(LegacyRows, MaxInitRows)
    /\ existing_entries = <<>>
    /\ remaining = <<>>
    /\ marked_count = 0
    /\ delete_pass = 0
    /\ idx = 1
    /\ errors = {}
    /\ issued = {}
    /\ cycles = 0
    /\ submitted = {}
    /\ report = NoReport
    /\ fault = FALSE
    /\ first = NoFirst

Init == SyncInit /\ ExtractIdle /\ CreateIdle /\ WeekIdle /\ ReadyIdle /\ HoursIdle /\ PrepareIdle /\ DatesIdle /\ MarkerIdle /\ DayDateIdle /\ FrameIdle /\ ConnectIdle /\ HoursTextIdle /\ RowIdle /\ RetryIdle /\ DeleteIdle /\ SaveIdle /\ RoundTripIdle

\* Mutant of EmptyCheck: the browser is opened for an empty list too.
EmptyCheckOpensAlways(worklogs) == "ready"

\* sync(): if not valid_worklogs: return; else the browser is launched.
EmptyCheck(worklogs) == IF worklogs = <<>> THEN "done" ELSE "ready"

\* sync() up to the connection: with no valid worklog the run returns before
\* the browser is opened; else it opens the page, logs in and sets the week.
Connect ==
    /\ pc = "start"
    /\ pc' = EmptyCheck(valid_worklogs)
    /\ UNCHANGED <<run, execute, locked, valid_worklogs, grid, existing_entries,
                   remaining, marked_count, delete_pass, idx, errors, issued,
                   cycles, submitted, report, fault, first>>
    /\ UNCHANGED browserVars

\* sync(), "[4.5] Waiting for page to be ready": up to 10 polls for the add-row
\* control; the loop ends at the first poll that sees it or after the tenth,
\* and the run goes on to the scan either way. No status label is read.
WaitForAddRow ==
    /\ pc = "ready"
    /\ \E seen \in BOOLEAN : pc' = "extract"
    /\ UNCHANGED <<run, execute, locked, valid_worklogs, grid, existing_entries,
                   remaining, marked_count, delete_pass, idx, errors, issued,
                   cycles, submitted, report, fault, first>>
    /\ UNCHANGED browserVars

\* Mutant of ShouldDelete: the dry-run flag is not looked at.
ShouldDeleteAlways(entries, dry_run) == entries # <<>>

\* sync(): if existing_entries and not dry_run.
ShouldDelete(entries, dry_run) == entries # <<>> /\ ~dry_run

\* sync(), "[5] Scanning existing entries".
Scan ==
    /\ pc = "extract"
    /\ existing_entries' = ExtractUnit4Entries(grid)
    /\ pc' = IF ShouldDelete(existing_entries', ~execute) THEN "mark" ELSE "create"
    /\ UNCHANGED <<run, execute, locked, valid_worklogs, grid, remaining,
                   marked_count, delete_pass, idx, errors, issued, cycles,
                   submitted, report, fault, first>>
    /\ UNCHANGED browserVars

\* sync(), "[6.1] Deleting ALL existing [WL:] entries": the marking loop.
MarkExisting ==
    /\ pc = "mark"
    /\ LET m == MarkEntries(grid, existing_entries, FALSE)
       IN  /\ grid' = m.rows
           /\ marked_count' = m.marked
           /\ report' = [report EXCEPT !.deleted = m.marked]
           /\ issued' = IF m.marked > 0 THEN issued \cup {"mark"} ELSE issued
           /\ pc' = IF m.marked > 0 THEN "confirm" ELSE "rescan"
           /\ submitted' = m.tried
    /\ delete_pass' = 0
    /\ UNCHANGED <<run, execute, locked, valid_worklogs, existing_entries,
                   remaining, idx, errors, cycles, fault, first>>
    /\ UNCHANGED browserVars

\* The operator's ENTER at "Press ENTER to click 'Loeschen'".
OperatorConfirms ==
    /\ pc = "confirm"
    /\ pc' = "bulk"
    /\ UNCHANGED <<run, execute, locked, valid_worklogs, grid, existing_entries,
                   remaining, marked_count, delete_pass, idx, errors, issued,
                   cycles, submitted, report, fault, first>>
    /\ UNCHANGED browserVars

\* The bulk delete of the first pass: the control is clicked when it is found,
\* the confirmation is answered and the grid is saved.
BulkDelete ==
    /\ pc = "bulk"
    /\ \/ \E stay \in SUBSET Selected(grid), keepSel \in BOOLEAN :
            /\ grid' = BulkDeleteEffect(grid, stay, keepSel)
            /\ issued' = issued \cup {"bulkDelete", "save"}
            /\ cycles' = cycles + 1
            /\ fault' = (fault \/ stay # {})
       \/ /\ fault' = TRUE
          /\ UNCHANGED <<grid, issued, cycles>>
    /\ marked_count' = 0
    /\ pc' = "rescan"
    /\ UNCHANGED <<run, execute, locked, valid_worklogs, existing_entries,
                   remaining, delete_pass, idx, errors, submitted, report, first>>
    /\ UNCHANGED browserVars

\* sync(), "Re-scanning (pass n)": the scan of a retry pass; the loop is left
\* when nothing is found. The loop's variables are not read after the loop:
\* they are put back to 0 where the loop is left.
Rescan ==
    /\ pc = "rescan"
    /\ delete_pass < RescanPasses
    /\ LET found == ExtractUnit4Entries(grid)
       IN  IF found = <<>>
           THEN /\ remaining' = <<>>
                /\ pc' = "create"
                /\ delete_pass' = 0
                /\ marked_count' = 0
           ELSE /\ remaining' = found
                /\ pc' = "remark"
                /\ UNCHANGED <<delete_pass, marked_count>>
    /\ UNCHANGED <<run, execute, locked, valid_worklogs, grid, existing_entries,
                   idx, errors, issued, cycles, submitted, report, fault, first>>
    /\ UNCHANGED browserVars

\* Where the run goes after iteration `p` of the retry loop.
AfterPass(p) == IF p + 1 = RescanPasses THEN "create" ELSE "rescan"
NextPass(p) == IF p + 1 = RescanPasses THEN 0 ELSE p + 1

\* sync(), "Mark remaining entries" of a retry pass.
MarkRemaining ==
    /\ pc = "remark"
    /\ LET m == MarkEntries(grid, remaining, TRUE)
       IN  /\ grid' = m.rows
           /\ marked_count' = m.marked
           /\ issued' = IF m.marked > 0 THEN issued \cup {"mark"} ELSE issued
    /\ pc' = "rebulk"
    /\ UNCHANGED <<run, execute, locked, valid_worklogs, existing_entries,
                   remaining, delete_pass, idx, errors, cycles, submitted,
                   report, fault, first>>
    /\ UNCHANGED browserVars

\* sync(), "if marked > 0" of a retry pass: the bulk delete (no operator
\* pause precedes it), its confirmation and the save; then the next pass.
BulkDeleteAgain ==
    /\ pc = "rebulk"
    /\ IF marked_count > 0
       THEN \/ \E stay \in SUBSET Selected(grid), keepSel \in BOOLEAN :
                 /\ grid' = BulkDeleteEffect(grid, stay, keepSel)
                 /\ issued' = issued \cup {"bulkDelete", "save"}
                 /\ cycles' = cycles + 1
                 /\ fault' = (fault \/ stay # {})
            \/ /\ fault' = TRUE
               /\ UNCHANGED <<grid, issued, cycles>>
       ELSE UNCHANGED <<grid, issued, cycles, fault>>
    /\ delete_pass' = NextPass(delete_pass)
    /\ marked_count' = 0
    /\ remaining' = <<>>
    /\ pc' = AfterPass(delete_pass)
    /\ UNCHANGED <<run, execute, locked, valid_worklogs, existing_entries,
                   idx, errors, submitted, report, first>>
    /\ UNCHANGED browserVars

\* sync(), dry-run branch: the intended deletions and creations are listed.
DryRunReport ==
    /\ pc = "create"
    /\ ~execute
    /\ report' = [report EXCEPT !.wouldDelete = Len(existing_entries),
                                !.wouldCreate = Len(valid_worklogs)]
    /\ pc' = "done"
    /\ UNCHANGED <<run, execute, locked, valid_worklogs, grid, existing_entries,
                   remaining, marked_count, delete_pass, idx, errors, issued,
                   cycles, submitted, fault, first>>
    /\ UNCHANGED browserVars

\* What add_unit4_entry() can come to, seen from sync():
\*   "ok"      the dialog was filled and confirmed: it returns True and the
\*             grid holds a new first row with the marker of the worklog;
\*   "failed"  a step failed and the dialog was cancelled: it returns False.
\* How a call of add_unit4_entry() ends: it returns True, it returns False,
\* or an await outside its try blocks raises (the click on the Zeitdetails
\* header in fill_hours_by_date(), the Enter key, the closure check).
CreateOutcomes == {"ok", "failed", "raised"}

\* The row add_unit4_entry() leaves: Text is "[WL:<id>] ...", Ticketno the
\* issue key, ArbAuft the cost-code.
NewRow(w) == Row(w.worklog_id, w.issue_key, w.arbauft, "both")

\* add_unit4_entry(frame, page, worklog, dry_run): what it returns, the grid
\* after it and the UI actions it issued. With dry_run it returns True
\* before the first UI action.
AddUnit4Entry(rows, w, dry_run, outcome) ==
    IF dry_run THEN [ok |-> TRUE, rows |-> rows, acts |-> {}]
    ELSE IF outcome = "ok"
    THEN [ok |-> TRUE, rows |-> <<NewRow(w)>> \o rows, acts |-> {"addRow", "fill"}]
    ELSE [ok |-> FALSE, rows |-> rows, acts |-> {"addRow", "fill"}]

\* sync(), "[7] Creating new entries": one add_unit4_entry() call. Nothing
\* in sync() catches what the call raises: the loop, the save and the run
\* end with the exception.
CreateEntry ==
    /\ pc = "create"
    /\ execute
    /\ idx <= Len(valid_worklogs)
    /\ \E outcome \in CreateOutcomes :
          LET w == valid_worklogs[idx]
              r == AddUnit4Entry(grid, w, ~execute, outcome)
          IN  /\ grid' = r.rows
              /\ issued' = issued \cup r.acts
              /\ fault' = (fault \/ outcome # "ok")
              /\ IF outcome = "raised"
                 THEN /\ pc' = "crashed"
                      /\ UNCHANGED <<errors, idx>>
                 ELSE /\ errors' = IF r.ok THEN errors ELSE errors \cup {w.worklog_id}
                      /\ idx' = idx + 1
                      /\ UNCHANGED pc
    /\ UNCHANGED <<run, execute, locked, valid_worklogs, existing_entries,
                   remaining, marked_count, delete_pass, cycles, submitted,
                   report, first>>
    /\ UNCHANGED browserVars

\* sync(), "[7.5] Closing dialog" and "[8] Saving": the Save control of the
\* frame, else of the page, else Ctrl+S.
CloseAndSave ==
    /\ pc = "create"
    /\ execute
    /\ idx > Len(valid_worklogs)
    /\ issued' = issued \cup {"save"}
    /\ report' = [report EXCEPT !.created = Len(valid_worklogs) - Cardinality(errors)]
    /\ pc' = "done"
    /\ UNCHANGED <<run, execute, locked, valid_worklogs, grid, existing_entries,
                   remaining, marked_count, delete_pass, idx, errors, cycles,
                   submitted, fault, first>>
    /\ UNCHANGED browserVars

\* The process is killed during the mutation phase of an execute-mode run
\* (the first run: a second one follows it).
Kill ==
    /\ run = 1
    /\ pc \in MutationPcs
    /\ execute
    /\ pc' = "killed"
    /\ UNCHANGED <<run, execute, locked, valid_worklogs, grid, existing_entries,
                   remaining, marked_count, delete_pass, idx, errors, issued,
                   cycles, submitted, report, fault, first>>
    /\ UNCHANGED browserVars

\* The next invocation of sync() for the same week and the same worklogs: a
\* new browser page on the grid the first run left.
NextRun ==
    /\ run = 1
    /\ pc \in {"done", "killed"}
    /\ run' = 2
    /\ first' = [ended |-> pc, execute |-> execute]
    /\ execute' \in BOOLEAN
    /\ grid' = FreshPage(grid)
    /\ pc' = "start"
    /\ existing_entries' = <<>>
    /\ remaining' = <<>>
    /\ marked_count' = 0
    /\ delete_pass' = 0
    /\ idx' = 1
    /\ errors' = {}
    /\ issued' = {}
    /\ cycles' = 0
    /\ submitted' = {}
    /\ report' = NoReport
    /\ fault' = FALSE
    /\ UNCHANGED <<locked, valid_worklogs>>
    /\ UNCHANGED browserVars

Next ==
    \/ Connect
    \/ WaitForAddRow
    \/ Scan
    \/ MarkExisting
    \/ OperatorConfirms
    \/ BulkDelete
    \/ Rescan
    \/ MarkRemaining
    \/ BulkDeleteAgain
    \/ DryRunReport
    \/ CreateEntry
    \/ CloseAndSave
    \/ Kill
    \/ NextRun

Spec == Init /\ [][Next]_vars

\* ------------------------------------------- Unit4Browser.extract_entries
\* (unit4_browser.py closes four statements of create_entry() with
\* "//TODO: unknown button"; the class is modelled as the statements read
\* without that trailer.)
\*
\* An element a locator query delivers, with the text the parser reads for it
\* (its title, value or text, then the inner text of its row): the marker id
\* the text holds (0: none that WORKLOG_MARKER matches), the ticket key and
\* the cost-code in the text.
KeyUnknown == <<"U", "N", "K", "N", "O", "W", "N">>
CodeZero == <<<<"0", "0", "0", "0">>, <<"0", "0", "0", "0", "0">>, <<"0", "0", "0">>>>
\* A cost-code cut by the column width.
CodeCut == <<<<"1", "2", "3", "4">>, <<"5", "6">>>>

\* The texts: both fields found, no ticket key, no cost-code.
ElementTexts ==
    {[ticket |-> KeyResolved, arbauft |-> CodeMapped],
     [ticket |-> KeyPlaceholder, arbauft |-> CodeMapped],
     [ticket |-> KeyResolved, arbauft |-> CodeCut]}

\* The elements: one without a marker, one per marker id with both fields,
\* and for the first id the ones with a field missing.
Elements ==
    {[wl |-> 0, ticket |-> KeyResolved, arbauft |-> CodeMapped]} \cup
    {[wl |-> id, ticket |-> KeyResolved, arbauft |-> CodeMapped] : id \in 1..MaxWl} \cup
    {[wl |-> 1, ticket |-> t.ticket, arbauft |-> t.arbauft] : t \in ElementTexts}

\* Unit4Browser._create_entry_from_text().
CreateEntryFromText(text, worklog_id) ==
    [worklog_id |-> worklog_id,
     ticketno |-> IF TicketKeySearch(text.ticket) THEN text.ticket ELSE KeyUnknown,
     arbauft |-> IF ArbauftSearch(text.arbauft) THEN text.arbauft ELSE CodeZero]

\* Mutant of ParseTextToEntry: the set of seen ids is not consulted.
ParseTextToEntryUnseen(text, seen) ==
    IF text.wl = 0 THEN [entry |-> <<>>, seen |-> seen]
    ELSE [entry |-> <<CreateEntryFromText(text, text.wl)>>,
          seen |-> seen \cup {text.wl}]

\* Unit4Browser._parse_text_to_entry(): None (here <<>>) without a marker or
\* for an id already seen, else the id is recorded and the entry returned.
ParseTextToEntry(text, seen) ==
    IF text.wl = 0 THEN [entry |-> <<>>, seen |-> seen]
    ELSE IF text.wl \in seen THEN [entry |-> <<>>, seen |-> seen]
    ELSE [entry |-> <<CreateEntryFromText(text, text.wl)>>,
          seen |-> seen \cup {text.wl}]

\* Unit4Browser._parse_element_to_entry(): the same over the title of the
\* element followed by the inner text of its row.
ParseElementToEntry(elem, seen) ==
    IF elem.wl = 0 THEN [entry |-> <<>>, seen |-> seen]
    ELSE IF elem.wl \in seen THEN [entry |-> <<>>, seen |-> seen]
    ELSE [entry |-> <<CreateEntryFromText(elem, elem.wl)>>,
          seen |-> seen \cup {elem.wl}]

\* extract_entries() is called on a page of one or more frames.
ExtractInit ==
    /\ frames_to_search \in 1..MaxFrames
    /\ frame_no = 1
    /\ strategy = "title"
    /\ seen_wl_ids = {}
    /\ page_entries = <<>>
    /\ delivered = {}
    /\ repeated = {}
    /\ titled = {}
    /\ both = {}

InitExtract == SyncIdle /\ ExtractInit /\ CreateIdle /\ WeekIdle /\ ReadyIdle /\ HoursIdle /\ PrepareIdle /\ DatesIdle /\ MarkerIdle /\ DayDateIdle /\ FrameIdle /\ ConnectIdle /\ HoursTextIdle /\ RowIdle /\ RetryIdle /\ DeleteIdle /\ SaveIdle /\ RoundTripIdle

\* The bookkeeping of what the queries delivered.
Deliver(elem) ==
    /\ delivered' = delivered \cup ({elem.wl} \ {0})
    /\ repeated' = repeated \cup ({elem.wl} \cap delivered)

\* _extract_from_title_attribute(): one iteration of the loop over the
\* elements with "[WL:" in their title attribute.
TitleElement ==
    /\ strategy = "title"
    /\ frame_no <= frames_to_search
    /\ \E elem \in Elements :
          LET r == ParseElementToEntry(elem, seen_wl_ids)
          IN  /\ page_entries' = page_entries \o r.entry
              /\ seen_wl_ids' = r.seen
              /\ Deliver(elem)
              /\ titled' = titled \cup ({elem.wl} \ {0})
    /\ UNCHANGED <<frames_to_search, frame_no, strategy, both>>
    /\ UNCHANGED notExtractVars

\* _extract_entries_from_frame(): strategy 1 has gone through its elements,
\* strategy 2 starts.
TitleStrategyDone ==
    /\ strategy = "title"
    /\ frame_no <= frames_to_search
    /\ strategy' = "input"
    /\ UNCHANGED <<frames_to_search, frame_no, seen_wl_ids, page_entries, delivered,
                   repeated, titled, both>>
    /\ UNCHANGED notExtractVars

\* _extract_from_inputs(): one iteration of the loop over the inputs and
\* textareas, for one whose value holds "[WL:".
InputElement ==
    /\ strategy = "input"
    /\ \E elem \in Elements :
          LET r == ParseTextToEntry(elem, seen_wl_ids)
          IN  /\ page_entries' = page_entries \o r.entry
              /\ seen_wl_ids' = r.seen
              /\ Deliver(elem)
    /\ UNCHANGED <<frames_to_search, frame_no, strategy, titled, both>>
    /\ UNCHANGED notExtractVars

\* _extract_entries_from_frame(): strategy 2 has gone through its elements,
\* strategy 3 starts.
InputStrategyDone ==
    /\ strategy = "input"
    /\ strategy' = "text"
    /\ UNCHANGED <<frames_to_search, frame_no, seen_wl_ids, page_entries, delivered,
                   repeated, titled, both>>
    /\ UNCHANGED notExtractVars

\* _extract_from_visible_text(): one iteration of the loop over the
\* elements whose visible text matches the marker pattern.
VisibleTextElement ==
    /\ strategy = "text"
    /\ \E elem \in {x \in Elements : x.wl # 0} :
          LET r == ParseTextToEntry(elem, seen_wl_ids)
          IN  /\ page_entries' = page_entries \o r.entry
              /\ seen_wl_ids' = r.seen
              /\ Deliver(elem)
              /\ both' = both \cup ({elem.wl} \cap titled)
    /\ UNCHANGED <<frames_to_search, frame_no, strategy, titled>>
    /\ UNCHANGED notExtractVars

\* extract_entries(): the frame is done, the loop goes on to the next one.
NextFrame ==
    /\ strategy = "text"
    /\ strategy' = "title"
    /\ frame_no' = frame_no + 1
    /\ titled' = {}
    /\ UNCHANGED <<frames_to_search, seen_wl_ids, page_entries, delivered, repeated, both>>
    /\ UNCHANGED notExtractVars

\* _extract_entries_from_frame(): a query raises (the frame is detached);
\* the entries of the frame's earlier strategies are returned and the search
\* goes on with the next frame.
FrameError ==
    /\ strategy \in {"title", "input", "text"}
    /\ frame_no <= frames_to_search
    /\ strategy' = "title"
    /\ frame_no' = frame_no + 1
    /\ titled' = {}
    /\ UNCHANGED <<frames_to_search, seen_wl_ids, page_entries, delivered, repeated, both>>
    /\ UNCHANGED notExtractVars

\* extract_entries(): return entries.
ExtractReturn ==
    /\ strategy = "title"
    /\ frame_no > frames_to_search
    /\ strategy' = "returned"
    /\ UNCHANGED <<frames_to_search, frame_no, seen_wl_ids, page_entries, delivered,
                   repeated, titled, both>>
    /\ UNCHANGED notExtractVars

NextExtract ==
    \/ TitleElement
    \/ TitleStrategyDone
    \/ InputElement
    \/ InputStrategyDone
    \/ VisibleTextElement
    \/ NextFrame
    \/ FrameError
    \/ ExtractReturn

SpecExtract == InitExtract /\ [][NextExtract]_vars

\* ----------------------------- add_unit4_entry / Unit4Browser.create_entry
\* The two functions run the same protocol; create_entry() looks for the
\* controls by their English labels ("Add", "Work order", "Activity",
\* "Description") and checks the closure ten times instead of five.
Implementations == {"add_unit4_entry", "create_entry"}

\* Mutant of FormFills: the ticket key is filled first.
FormFillsTicketFirst == <<"Ticketno", "ArbAuft", "Aktivitaet", "Text">>

\* The labeled-field fills of the detail dialog, in the order of the calls.
FormFills == <<"ArbAuft", "Aktivitaet", "Text", "Ticketno">>

\* add_unit4_entry(): for _ in range(5).
VerifyTriesDriver == 5
\* Unit4Browser.create_entry(): for _ in range(10).
VerifyTriesBrowser == 10
VerifyTries == IF impl = "create_entry" THEN VerifyTriesBrowser ELSE VerifyTriesDriver

CreateInit ==
    /\ impl \in Implementations
    /\ step = "call"
    /\ dry_run_arg \in BOOLEAN
    /\ worklog \in {Worklog(1, key) : key \in IssueKeys}
    /\ trace = <<>>
    /\ fill_no = 1
    /\ arbauft_ok = FALSE
    /\ aktivitaet_ok = FALSE
    /\ text_ok = FALSE
    /\ ticketno_ok = FALSE
    /\ tries = 0
    /\ result = "none"
    /\ dialog_open = FALSE

InitCreate == SyncIdle /\ ExtractIdle /\ CreateInit /\ WeekIdle /\ ReadyIdle /\ HoursIdle /\ PrepareIdle /\ DatesIdle /\ MarkerIdle /\ DayDateIdle /\ FrameIdle /\ ConnectIdle /\ HoursTextIdle /\ RowIdle /\ RetryIdle /\ DeleteIdle /\ SaveIdle /\ RoundTripIdle

Return(value) == step' = "returned" /\ result' = value

\* find_and_click_button(frame, "Abbrechen") / _click_button(): whether the
\* dialog is open after the call, the Cancel control having been clicked
\* or not found; the callers do not look at the returned value.
AfterCancel(open, clicked) == open /\ ~clicked

\* Mutant of MandatoryFilled: only the cost-code fill is looked at.
MandatoryFilledCostCodeOnly(a_ok, t_ok) == a_ok

\* The condition of "if not (arbauft_ok and text_ok)".
MandatoryFilled(a_ok, t_ok) == a_ok /\ t_ok

\* if dry_run: print("SKIPPED (dry-run)"); return True.
DryRunSkip ==
    /\ step = "call"
    /\ dry_run_arg
    /\ Return("True")
    /\ UNCHANGED <<impl, dry_run_arg, worklog, trace, fill_no, arbauft_ok,
                   aktivitaet_ok, text_ok, ticketno_ok, tries, dialog_open>>
    /\ UNCHANGED notCreateVars

\* The add-row control is clicked; without it the call returns False.
ClickAddRow ==
    /\ step = "call"
    /\ ~dry_run_arg
    /\ \E found \in BOOLEAN :
          IF found
          THEN /\ trace' = Append(trace, "addRow")
               /\ step' = "zoom"
               /\ result' = result
          ELSE /\ trace' = trace
               /\ Return("False")
    /\ UNCHANGED <<impl, dry_run_arg, worklog, fill_no, arbauft_ok, aktivitaet_ok,
                   text_ok, ticketno_ok, tries, dialog_open>>
    /\ UNCHANGED notCreateVars

\* The first zoom icon is clicked, which opens the detail dialog; with no
\* icon, or when the click raises, the call returns False.
OpenDetail ==
    /\ step = "zoom"
    /\ \E opened \in BOOLEAN :
          IF opened
          THEN /\ trace' = Append(trace, "openDetail")
               /\ step' = "fill"
               /\ result' = result
               /\ dialog_open' = TRUE
          ELSE /\ trace' = trace
               /\ Return("False")
               /\ dialog_open' = dialog_open
    /\ UNCHANGED <<impl, dry_run_arg, worklog, fill_no, arbauft_ok, aktivitaet_ok,
                   text_ok, ticketno_ok, tries>>
    /\ UNCHANGED notCreateVars

\* One find_and_fill_by_label() / _fill_field() call: the field is filled
\* and the call returns True, or it is not found and the call returns False.
FillField ==
    /\ step = "fill"
    /\ fill_no <= Len(FormFills)
    /\ \E ok \in BOOLEAN :
          LET label == FormFills[fill_no]
          IN  /\ trace' = IF ok THEN Append(trace, label) ELSE trace
              /\ arbauft_ok' = IF label = "ArbAuft" THEN ok ELSE arbauft_ok
              /\ aktivitaet_ok' = IF label = "Aktivitaet" THEN ok ELSE aktivitaet_ok
              /\ text_ok' = IF label = "Text" THEN ok ELSE text_ok
              /\ ticketno_ok' = IF label = "Ticketno" THEN ok ELSE ticketno_ok
    /\ fill_no' = fill_no + 1
    /\ UNCHANGED <<impl, step, dry_run_arg, worklog, tries, result, dialog_open>>
    /\ UNCHANGED notCreateVars

\* if not (arbauft_ok and text_ok): the Cancel control is looked for and
\* clicked, return False. ("cancel" in the trace is that call.)
CheckFills ==
    /\ step = "fill"
    /\ fill_no > Len(FormFills)
    /\ IF MandatoryFilled(arbauft_ok, text_ok)
       THEN /\ step' = "hours"
            /\ UNCHANGED <<trace, result, dialog_open>>
       ELSE /\ trace' = Append(trace, "cancel")
            /\ \E clicked \in BOOLEAN : dialog_open' = AfterCancel(dialog_open, clicked)
            /\ Return("False")
    /\ UNCHANGED <<impl, dry_run_arg, worklog, fill_no, arbauft_ok, aktivitaet_ok,
                   text_ok, ticketno_ok, tries>>
    /\ UNCHANGED notCreateVars

\* fill_hours_by_date(): the hours of the day are filled, or the Cancel
\* control is looked for and clicked and the call returns False.
FillHoursByDate ==
    /\ step = "hours"
    /\ \E zeit_ok \in BOOLEAN :
          IF zeit_ok
          THEN /\ trace' = Append(trace, "hours")
               /\ step' = "ok"
               /\ result' = result
               /\ dialog_open' = dialog_open
          ELSE /\ trace' = Append(trace, "cancel")
               /\ \E clicked \in BOOLEAN : dialog_open' = AfterCancel(dialog_open, clicked)
               /\ Return("False")
    /\ UNCHANGED <<impl, dry_run_arg, worklog, fill_no, arbauft_ok, aktivitaet_ok,
                   text_ok, ticketno_ok, tries>>
    /\ UNCHANGED notCreateVars

\* The OK control is clicked, after which the dialog closes or stays for a
\* while; without the control Enter is pressed, Cancel and OK are looked
\* for and clicked, and the call returns False.
ClickOk ==
    /\ step = "ok"
    /\ \E ok_clicked \in BOOLEAN, closed \in BOOLEAN :
          IF ok_clicked
          THEN /\ trace' = Append(trace, "ok")
               /\ step' = "verify"
               /\ result' = result
               /\ dialog_open' = (dialog_open /\ ~closed)
          ELSE /\ trace' = trace \o <<"enter", "cancel">>
               /\ dialog_open' = AfterCancel(dialog_open, closed)
               /\ Return("False")
    /\ UNCHANGED <<impl, dry_run_arg, worklog, fill_no, arbauft_ok, aktivitaet_ok,
                   text_ok, ticketno_ok, tries>>
    /\ UNCHANGED notCreateVars

\* The closure check: while the add-row control is not visible (an open
\* dialog covers it), OK and Cancel are tried again; the call returns True
\* when the control is seen or when the iterations are used up.
VerifyClosed ==
    /\ step = "verify"
    /\ \E visible \in {v \in BOOLEAN : v => ~dialog_open}, closed \in BOOLEAN :
          IF visible \/ tries = VerifyTries
          THEN /\ Return("True")
               /\ tries' = tries
               /\ dialog_open' = dialog_open
          ELSE /\ tries' = tries + 1
               /\ dialog_open' = (dialog_open /\ ~closed)
               /\ UNCHANGED <<step, result>>
    /\ UNCHANGED <<impl, dry_run_arg, worklog, trace, fill_no, arbauft_ok,
                   aktivitaet_ok, text_ok, ticketno_ok>>
    /\ UNCHANGED notCreateVars

NextCreate ==
    \/ DryRunSkip
    \/ ClickAddRow
    \/ OpenDetail
    \/ FillField
    \/ CheckFills
    \/ FillHoursByDate
    \/ ClickOk
    \/ VerifyClosed

SpecCreate == InitCreate /\ [][NextCreate]_vars

\* ------------------------------------------ set_week / Unit4Browser.set_week
\* The two functions run the same loop; Unit4Browser.set_week() has three
\* strategies for the period input instead of four, and asks its frame
\* manager for the frame (refresh = attempt > 0) where set_week() calls
\* get_content_frame(page) when attempt > 0.
WeekImplementations == {"set_week", "Unit4Browser.set_week"}

\* Mutant of SetWeekAttempts: one more attempt.
SetWeekAttemptsMore == 3 + 1

\* for attempt in range(3).
SetWeekAttempts == 3

\* strategies: the ways to find the week input.
StrategiesDriver == 4
StrategiesBrowser == 3
WeekStrategies == IF sw_impl = "set_week" THEN StrategiesDriver ELSE StrategiesBrowser

WeekInit ==
    /\ sw_impl \in WeekImplementations
    /\ sw_call = 1
    /\ sw_step = "frame"
    /\ attempt = 0
    /\ week_input = 0
    /\ history = <<>>
    /\ refreshed = {}
    /\ sw_result = "none"

InitSetWeek == SyncIdle /\ ExtractIdle /\ CreateIdle /\ WeekInit /\ ReadyIdle /\ HoursIdle /\ PrepareIdle /\ DatesIdle /\ MarkerIdle /\ DayDateIdle /\ FrameIdle /\ ConnectIdle /\ HoursTextIdle /\ RowIdle /\ RetryIdle /\ DeleteIdle /\ SaveIdle /\ RoundTripIdle

\* The end of an attempt that did not return: the next attempt, or after
\* the last one "return False".
EndAttempt(how) ==
    /\ history' = Append(history, how)
    /\ week_input' = 0
    /\ IF attempt + 1 < SetWeekAttempts
       THEN /\ attempt' = attempt + 1
            /\ sw_step' = "frame"
            /\ sw_result' = sw_result
       ELSE /\ attempt' = attempt
            /\ sw_step' = "returned"
            /\ sw_result' = "False"

\* The first statement of an attempt: from the second attempt on the
\* content frame is resolved again; the resolution may raise.
ResolveFrame ==
    /\ sw_step = "frame"
    /\ \E raised \in BOOLEAN :
          IF attempt > 0 /\ raised
          THEN /\ EndAttempt("exception")
               /\ refreshed' = refreshed \cup {attempt}
          ELSE /\ refreshed' = IF attempt > 0 THEN refreshed \cup {attempt} ELSE refreshed
               /\ sw_step' = "find"
               /\ UNCHANGED <<attempt, week_input, history, sw_result>>
    /\ UNCHANGED <<sw_impl, sw_call>>
    /\ UNCHANGED notWeekVars

\* The strategies are tried in order; the first visible candidate is
\* week_input (0: none of them gave one).
FindWeekInput ==
    /\ sw_step = "find"
    /\ \E found \in 0..WeekStrategies :
          IF found = 0
          THEN EndAttempt("not_found")
          ELSE /\ week_input' = found
               /\ sw_step' = "type"
               /\ UNCHANGED <<attempt, history, sw_result>>
    /\ UNCHANGED <<sw_impl, sw_call, refreshed>>
    /\ UNCHANGED notWeekVars

\* click, Control+a, type, Tab: return True; any of them may raise, which
\* ends the attempt.
TypeAndCommit ==
    /\ sw_step = "type"
    /\ \E raised \in BOOLEAN :
          IF raised
          THEN EndAttempt("exception")
          ELSE /\ history' = Append(history, "ok")
               /\ sw_step' = "returned"
               /\ sw_result' = "True"
               /\ UNCHANGED <<attempt, week_input>>
    /\ UNCHANGED <<sw_impl, sw_call, refreshed>>
    /\ UNCHANGED notWeekVars

\* sync(): if not await set_week(...): wait, then set_week() one more time
\* (the value of the second call is not looked at).
SetWeekAgain ==
    /\ sw_step = "returned"
    /\ sw_result = "False"
    /\ sw_impl = "set_week"
    /\ sw_call = 1
    /\ sw_call' = 2
    /\ sw_step' = "frame"
    /\ attempt' = 0
    /\ week_input' = 0
    /\ history' = <<>>
    /\ refreshed' = {}
    /\ sw_result' = "none"
    /\ UNCHANGED sw_impl
    /\ UNCHANGED notWeekVars

NextSetWeek ==
    \/ ResolveFrame
    \/ FindWeekInput
    \/ TypeAndCommit
    \/ SetWeekAgain

SpecSetWeek == InitSetWeek /\ [][NextSetWeek]_vars

\* ------------------------- Unit4Browser.wait_for_ready / sync() readiness
\* Unit4Browser.wait_for_ready() looks for the status texts and then for the
\* add-row control; the loop of sync() looks for the add-row control only and
\* goes on to the scan whether it found it or not.
ReadyImplementations == {"Unit4Browser.wait_for_ready", "sync"}

\* Mutant of ReadyPolls: one more poll.
ReadyPollsMore == 10 + 1

\* for i in range(10).
ReadyPolls == 10

\* _is_week_submitted(): status_indicators.
StatusIndicators == {"Ready", "Transferred", "Gesendet"}

\* _is_week_submitted(frame): one of the indicators is there and visible (a
\* lookup that raises counts as not visible).
IsWeekSubmitted(labels, detached) ==
    /\ ~detached
    /\ \E status_text \in StatusIndicators : status_text \in labels

\* What wait_for_ready() returns when the week is submitted, when the add-row
\* control is visible, and after the last poll without either.
ReturnLocked == "False"
ReturnEditable == "True"
ReturnTimeout == "False"

ReadyInit ==
    /\ rd_impl \in ReadyImplementations
    /\ rd_step = "poll"
    /\ rd_i = 0
    /\ page_labels = {}
    /\ page_add = FALSE
    /\ page_detached = FALSE
    /\ checks = <<>>
    /\ earlier_label = FALSE
    /\ earlier_add = FALSE
    /\ rd_result = "none"
    /\ rd_outcome = "none"

InitReady == SyncIdle /\ ExtractIdle /\ CreateIdle /\ WeekIdle /\ ReadyInit /\ HoursIdle /\ PrepareIdle /\ DatesIdle /\ MarkerIdle /\ DayDateIdle /\ FrameIdle /\ ConnectIdle /\ HoursTextIdle /\ RowIdle /\ RetryIdle /\ DeleteIdle /\ SaveIdle /\ RoundTripIdle

\* The loop ends and hands value to its caller.
ReadyReturn(value, outcome) ==
    /\ rd_step' = "returned"
    /\ rd_result' = value
    /\ rd_outcome' = outcome
    /\ UNCHANGED <<rd_i, earlier_label, earlier_add>>

\* The head of one iteration: the page is in some state when the iteration
\* looks at it.
Poll ==
    /\ rd_step = "poll"
    /\ \E labels \in SUBSET StatusIndicators, add \in BOOLEAN, detached \in BOOLEAN :
          /\ detached => (labels = {} /\ ~add)
          /\ page_labels' = labels
          /\ page_add' = add
          /\ page_detached' = detached
    /\ checks' = <<>>
    /\ rd_step' = IF rd_impl = "sync" THEN "add" ELSE "submitted"
    /\ UNCHANGED <<rd_impl, rd_i, earlier_label, earlier_add, rd_result, rd_outcome>>
    /\ UNCHANGED notReadyVars

\* is_submitted = await self._is_week_submitted(frame); if is_submitted:
\* return False.
CheckSubmitted ==
    /\ rd_step = "submitted"
    /\ checks' = Append(checks, "locked")
    /\ IF IsWeekSubmitted(page_labels, page_detached)
       THEN ReadyReturn(ReturnLocked, "LOCKED")
       ELSE /\ rd_step' = "add"
            /\ UNCHANGED <<rd_i, earlier_label, earlier_add, rd_result, rd_outcome>>
    /\ UNCHANGED <<rd_impl, page_labels, page_add, page_detached>>
    /\ UNCHANGED notReadyVars

\* The look for the add-row control, the sleep and the test of i. The lookup
\* is outside every try: with the frame gone the loop ends with the
\* exception. sync() breaks out of its loop, or falls out of it after the
\* TIMEOUT message, and goes on either way.
CheckAddRow ==
    /\ rd_step = "add"
    /\ checks' = Append(checks, "add")
    /\ IF page_detached
       THEN ReadyReturn("raised", "EXCEPTION")
       ELSE IF page_add
       THEN ReadyReturn(IF rd_impl = "sync" THEN "goes on" ELSE ReturnEditable, "EDITABLE")
       ELSE IF rd_i + 1 >= ReadyPolls
       THEN /\ rd_step' = "returned"
            /\ rd_result' = IF rd_impl = "sync" THEN "goes on" ELSE ReturnTimeout
            /\ rd_outcome' = "TIMED_OUT"
            /\ earlier_label' = (earlier_label \/ page_labels # {})
            /\ earlier_add' = (earlier_add \/ page_add)
            /\ UNCHANGED rd_i
       ELSE /\ rd_i' = rd_i + 1
            /\ rd_step' = "poll"
            /\ earlier_label' = (earlier_label \/ page_labels # {})
            /\ earlier_add' = (earlier_add \/ page_add)
            /\ UNCHANGED <<rd_result, rd_outcome>>
    /\ UNCHANGED <<rd_impl, page_labels, page_add, page_detached>>
    /\ UNCHANGED notReadyVars

NextReady ==
    \/ Poll
    \/ CheckSubmitted
    \/ CheckAddRow

SpecReady == InitReady /\ [][NextReady]_vars

\* ------------------- fill_hours_by_date / Unit4Browser._fill_hours_by_date
\* The two functions run the same loop. They differ where no input turned up
\* after the double click (fill_hours_by_date() types blind and returns True,
\* _fill_hours_by_date() goes to the next attempt) and after the loop
\* (fill_hours_by_date() returns False, _fill_hours_by_date() asks the
\* operator and returns True).
HoursImplementations == {"fill_hours_by_date", "Unit4Browser._fill_hours_by_date"}

\* for attempt in range(5).
HoursAttempts == 5

HoursInit ==
    /\ fh_impl \in HoursImplementations
    /\ fh_step = "expand"
    /\ fh_attempt = 0
    /\ fh_trace = <<>>
    /\ fh_history = <<>>
    /\ fh_manual = FALSE
    /\ fh_result = "none"

InitHours == SyncIdle /\ ExtractIdle /\ CreateIdle /\ WeekIdle /\ ReadyIdle /\ HoursInit /\ PrepareIdle /\ DatesIdle /\ MarkerIdle /\ DayDateIdle /\ FrameIdle /\ ConnectIdle /\ HoursTextIdle /\ RowIdle /\ RetryIdle /\ DeleteIdle /\ SaveIdle /\ RoundTripIdle

\* continue: the next attempt, or the end of the loop after the last one.
HoursContinue(how) ==
    /\ fh_history' = Append(fh_history, how)
    /\ fh_result' = fh_result
    /\ IF fh_attempt + 1 < HoursAttempts
       THEN /\ fh_attempt' = fh_attempt + 1
            /\ fh_step' = "expand"
       ELSE /\ fh_attempt' = fh_attempt
            /\ fh_step' = "after_loop"

\* return value, from inside the loop.
HoursReturn(how, value) ==
    /\ fh_history' = Append(fh_history, how)
    /\ fh_result' = value
    /\ fh_step' = "returned"
    /\ fh_attempt' = fh_attempt

\* await expand_zeitdetails(frame, page): its value is not looked at.
ExpandZeitdetails ==
    /\ fh_step = "expand"
    /\ fh_trace' = <<"expand">>
    /\ fh_step' = "read"
    /\ UNCHANGED <<fh_impl, fh_attempt, fh_history, fh_manual, fh_result>>
    /\ UNCHANGED notHoursVars

\* date_to_label = await read_zeitdetails_structure(frame); a date that is
\* not in it: before the last attempt a click on the section header (outside
\* the try: its exception leaves the function) and continue, at the last
\* attempt "return False".
ReadZeitdetailsStructure ==
    /\ fh_step = "read"
    /\ fh_trace' = Append(fh_trace, "read")
    /\ \E in_structure \in BOOLEAN, click_raises \in BOOLEAN :
          IF in_structure
          THEN /\ fh_step' = "cell"
               /\ UNCHANGED <<fh_attempt, fh_history, fh_result>>
          ELSE IF fh_attempt < HoursAttempts - 1
          THEN IF click_raises
               THEN HoursReturn("no_date", "raised")
               ELSE HoursContinue("no_date")
          ELSE HoursReturn("no_date", "False")
    /\ UNCHANGED <<fh_impl, fh_manual>>
    /\ UNCHANGED notHoursVars

\* The day's row and in it the last visible cell with a numeric text.
FindErfasstCell ==
    /\ fh_step = "cell"
    /\ fh_trace' = Append(fh_trace, "cell")
    /\ \E how \in {"found", "no_day_cell", "no_cell", "exception"} :
          IF how = "found"
          THEN /\ fh_step' = "input"
               /\ UNCHANGED <<fh_attempt, fh_history, fh_result>>
          ELSE HoursContinue(how)
    /\ UNCHANGED <<fh_impl, fh_manual>>
    /\ UNCHANGED notHoursVars

\* The double click, the search for the active input, fill (or the script
\* that sets the value) and Tab.
SetHours ==
    /\ fh_step = "input"
    /\ fh_trace' = Append(fh_trace, "set")
    /\ \E active_input \in BOOLEAN, raised \in BOOLEAN :
          IF raised
          THEN HoursContinue("exception")
          ELSE IF active_input
          THEN HoursReturn("ok", "True")
          ELSE IF fh_impl = "fill_hours_by_date"
          THEN HoursReturn("blind", "True")
          ELSE HoursContinue("no_input")
    /\ UNCHANGED <<fh_impl, fh_manual>>
    /\ UNCHANGED notHoursVars

\* After the fifth attempt: fill_hours_by_date() prints "FAILED after 5
\* attempts" and returns False; _fill_hours_by_date() asks the operator to
\* enter the hours and waits for ENTER.
AfterHoursLoop ==
    /\ fh_step = "after_loop"
    /\ IF fh_impl = "fill_hours_by_date"
       THEN /\ fh_step' = "returned"
            /\ fh_result' = "False"
            /\ fh_manual' = fh_manual
       ELSE /\ fh_step' = "manual"
            /\ fh_result' = fh_result
            /\ fh_manual' = TRUE
    /\ UNCHANGED <<fh_impl, fh_attempt, fh_trace, fh_history>>
    /\ UNCHANGED notHoursVars

\* The operator presses ENTER (or the input is at its end): return True.
OperatorEnteredHours ==
    /\ fh_step = "manual"
    /\ fh_step' = "returned"
    /\ fh_result' = "True"
    /\ UNCHANGED <<fh_impl, fh_attempt, fh_trace, fh_history, fh_manual>>
    /\ UNCHANGED notHoursVars

NextHours ==
    \/ ExpandZeitdetails
    \/ ReadZeitdetailsStructure
    \/ FindErfasstCell
    \/ SetHours
    \/ AfterHoursLoop
    \/ OperatorEnteredHours

SpecHours == InitHours /\ [][NextHours]_vars

\* ------------------------------------------------- sync(): the read side
\* The account keys the issues carry ("": the issue has no account).
AccountKeys == {"A", "B"}

\* The issues of the week's worklogs.
IssueIds == {7, 8}
Str(issue_id) == IF issue_id = 7 THEN "7" ELSE "8"

\* f"ID:{issue_id}".
PlaceholderKey(issue_id) == <<"I", "D", ":", Str(issue_id)>>

\* A second well-formed cost-code and answers that are not one: a group
\* missing, a letter in the last group.
CodeOther == <<<<"4", "3", "2", "1">>, <<"9", "8", "7", "6", "5">>, <<"0", "0", "2">>>>
CodeLetter == <<<<"1", "2", "3", "4">>, <<"5", "6", "7", "8", "9">>, <<"0", "0", "X">>>>
CodeShort == <<<<"1", "2", "3", "4">>, <<"5", "6">>>>

\* What the operator types, after strip(): the groups between the hyphens
\* (<<>>: nothing).
Answers ==
    {<<>>, <<<<"S", "K", "I", "P">>>>, <<<<"s", "k", "i", "p">>>>,
     CodeMapped, CodeOther, CodeLetter, CodeShort}

\* str.upper() on the letters the answers have.
UpperChar(c) ==
    CASE c = "s" -> "S"
      [] c = "k" -> "K"
      [] c = "i" -> "I"
      [] c = "p" -> "P"
      [] OTHER -> c
AnswerUpper(answer) ==
    [g \in 1..Len(answer) |-> [j \in 1..Len(answer[g]) |-> UpperChar(answer[g][j])]]

\* arbauft.upper() == "SKIP" or not arbauft.
IsSkip(answer) == AnswerUpper(answer) = <<<<"S", "K", "I", "P">>>> \/ answer = <<>>

\* re.match(r"^\d{4}-\d{5}-\d{3}$", arbauft).
ArbauftMatch(answer) ==
    /\ Len(answer) = 3
    /\ Len(answer[1]) = 4
    /\ Len(answer[2]) = 5
    /\ Len(answer[3]) = 3
    /\ \A g \in 1..3 : \A j \in 1..Len(answer[g]) : answer[g][j] \in Digit

\* mapping[account_key] = {...}.
Upsert(m, account_key, code) ==
    [k \in (DOMAIN m) \cup {account_key} |-> IF k = account_key THEN code ELSE m[k]]

\* The mapping files a run can find: none, or one with account "A".
MappingFiles == {<<>>, [k \in {"A"} |-> CodeMapped]}

\* The raw worklogs of a week: ids 1..n in order, each on one of the issues.
RawWorklogLists ==
    {<<>>} \cup
    UNION {{[i \in 1..n |-> [tempoWorklogId |-> i, issue |-> f[i]]] : f \in [1..n -> IssueIds]} :
              n \in 1..MaxWl}

\* What the issue lookup can give: status 200 with the issue's account field,
\* another status.
LookupResults ==
    {[status |-> 200, account_key |-> a, summary |-> "Fix login"] : a \in AccountKeys \cup {""}}
        \cup {[status |-> 404, account_key |-> "", summary |-> ""]}

\* fetch_jira_issue(): the JSON for status 200, None otherwise.
FetchJiraIssue(response) == IF response.status = 200 THEN response ELSE <<>>

\* The issue_cache entry process_worklogs() builds from fetch_jira_issue().
CacheEntry(issue_id, issue_data) ==
    IF issue_data # <<>>
    THEN [key |-> KeyResolved, summary |-> issue_data.summary,
          account_key |-> issue_data.account_key]
    ELSE [key |-> PlaceholderKey(issue_id), summary |-> "?", account_key |-> ""]

\* Apply mapping: the arbauft of the account, None (<<>>) without one.
ApplyMapping(m, account_key) ==
    IF account_key # "" /\ account_key \in DOMAIN m THEN m[account_key] ELSE <<>>

TempoWorklog(wl, info, code) ==
    [worklog_id |-> wl.tempoWorklogId, issue_id |-> wl.issue, issue_key |-> info.key,
     issue_summary |-> info.summary, account_key |-> info.account_key, arbauft |-> code]

PrepareInit ==
    /\ pp_step = "fetch"
    /\ pp_i = 0
    /\ mapping_file \in MappingFiles
    /\ mapping = mapping_file
    /\ raw_worklogs = <<>>
    /\ issue_cache = <<>>
    /\ pp_valid = <<>>
    /\ unmapped_worklogs = <<>>
    /\ prompts = <<>>
    /\ failed_lookups = {}
    /\ lookups = <<>>

InitPrepare ==
    /\ SyncIdle /\ ExtractIdle /\ CreateIdle /\ WeekIdle /\ ReadyIdle /\ HoursIdle
    /\ PrepareInit /\ DatesIdle /\ MarkerIdle /\ DayDateIdle /\ FrameIdle /\ ConnectIdle
    /\ HoursTextIdle /\ RowIdle /\ RetryIdle /\ DeleteIdle /\ SaveIdle /\ RoundTripIdle

\* An exception nothing catches: sync() and the process end (the caller
\* says whether a lookup was made).
Abort ==
    /\ pp_step' = "aborted"
    /\ UNCHANGED <<pp_i, mapping, mapping_file, raw_worklogs, issue_cache, pp_valid,
                   unmapped_worklogs, prompts, failed_lookups>>

\* raw_worklogs = fetch_tempo_worklogs(...): every request is followed by
\* raise_for_status(); a transport error raises in requests.get().
FetchTempoWorklogs ==
    /\ pp_step = "fetch"
    /\ \E outcome \in {"ok", "status", "transport"} :
          IF outcome = "ok"
          THEN /\ raw_worklogs' \in RawWorklogLists
               /\ pp_step' = "process"
               /\ pp_i' = 1
               /\ UNCHANGED <<mapping, mapping_file, issue_cache, pp_valid,
                              unmapped_worklogs, prompts, failed_lookups, lookups>>
          ELSE Abort /\ UNCHANGED lookups
    /\ UNCHANGED notPrepareVars

\* Mutant of Cached: an entry made for a lookup that found nothing does
\* not count.
CachedFoundOnly(cache, issue_id) ==
    issue_id \in DOMAIN cache /\ cache[issue_id].key # PlaceholderKey(issue_id)

\* issue_id in issue_cache.
Cached(cache, issue_id) == issue_id \in DOMAIN cache

\* One iteration of the loop of process_worklogs(); after the last worklog
\* the loop is over (sync() goes to the prompts).
ProcessWorklog ==
    /\ pp_step = "process"
    /\ pp_i <= Len(raw_worklogs)
    /\ LET wl == raw_worklogs[pp_i]
           issue_id == wl.issue
       IN  \E response \in LookupResults, transport_error \in BOOLEAN :
              IF ~Cached(issue_cache, issue_id) /\ transport_error
              THEN Abort /\ lookups' = Append(lookups, issue_id)
              ELSE LET cache == IF Cached(issue_cache, issue_id)
                                THEN issue_cache
                                ELSE [k \in (DOMAIN issue_cache) \cup {issue_id} |->
                                         IF k = issue_id
                                         THEN CacheEntry(issue_id, FetchJiraIssue(response))
                                         ELSE issue_cache[k]]
                       info == cache[issue_id]
                       code == ApplyMapping(mapping, info.account_key)
                       worklog_new == TempoWorklog(wl, info, code)
                   IN  /\ issue_cache' = cache
                       /\ lookups' = IF Cached(issue_cache, issue_id)
                                     THEN lookups
                                     ELSE Append(lookups, issue_id)
                       /\ failed_lookups' =
                             IF ~Cached(issue_cache, issue_id) /\ response.status # 200
                             THEN failed_lookups \cup {issue_id}
                             ELSE failed_lookups
                       /\ IF code # <<>>
                          THEN /\ pp_valid' = Append(pp_valid, worklog_new)
                               /\ UNCHANGED unmapped_worklogs
                          ELSE /\ unmapped_worklogs' = Append(unmapped_worklogs, worklog_new)
                               /\ UNCHANGED pp_valid
                       /\ pp_i' = pp_i + 1
                       /\ UNCHANGED <<pp_step, mapping, mapping_file, raw_worklogs, prompts>>
    /\ UNCHANGED notPrepareVars

\* process_worklogs() returns.
ProcessDone ==
    /\ pp_step = "process"
    /\ pp_i > Len(raw_worklogs)
    /\ pp_step' = "prompt"
    /\ pp_i' = 1
    /\ UNCHANGED <<mapping, mapping_file, raw_worklogs, issue_cache, pp_valid,
                   unmapped_worklogs, prompts, failed_lookups, lookups>>
    /\ UNCHANGED notPrepareVars

\* ask_for_arbauft(worklog, mapping): the value it returns (<<>>: None) and
\* the dict it leaves.
AskForArbauftValue(answer) ==
    IF IsSkip(answer) THEN <<>>
    ELSE IF ~ArbauftMatch(answer) THEN <<>>
    ELSE answer
AskForArbauftMapping(m, wl_asked, answer) ==
    IF AskForArbauftValue(answer) = <<>> THEN m
    ELSE Upsert(m, wl_asked.account_key, answer)

\* One iteration of "for wl in unmapped_worklogs": the prompt, the answer,
\* the upsert with save_mapping() (its write may fail), and the append to
\* valid_worklogs.
AskForArbauft ==
    /\ pp_step = "prompt"
    /\ pp_i <= Len(unmapped_worklogs)
    /\ LET wl_asked == unmapped_worklogs[pp_i]
       IN  \E answer \in Answers, write_fails \in BOOLEAN :
              LET arbauft == AskForArbauftValue(answer)
                  asked == [worklog_id |-> wl_asked.worklog_id,
                            account_key |-> wl_asked.account_key,
                            answer |-> answer,
                            before |-> mapping_file,
                            after |-> AskForArbauftMapping(mapping, wl_asked, answer)]
              IN  /\ mapping' = AskForArbauftMapping(mapping, wl_asked, answer)
                  /\ IF arbauft # <<>> /\ write_fails
                     THEN /\ pp_step' = "aborted"
                          /\ UNCHANGED <<pp_i, mapping_file, pp_valid, prompts>>
                     ELSE /\ mapping_file' = mapping'
                          /\ prompts' = Append(prompts, asked)
                          /\ pp_valid' = IF arbauft # <<>>
                                         THEN Append(pp_valid, [wl_asked EXCEPT !.arbauft = arbauft])
                                         ELSE pp_valid
                          /\ pp_i' = pp_i + 1
                          /\ UNCHANGED pp_step
    /\ UNCHANGED <<raw_worklogs, issue_cache, unmapped_worklogs, failed_lookups, lookups>>
    /\ UNCHANGED notPrepareVars

\* After the prompts: the summary; without valid worklogs sync() returns,
\* otherwise it starts the browser.
ShowSummary ==
    /\ pp_step = "prompt"
    /\ pp_i > Len(unmapped_worklogs)
    /\ pp_step' = IF pp_valid = <<>> THEN "done" ELSE "connect"
    /\ UNCHANGED <<pp_i, mapping, mapping_file, raw_worklogs, issue_cache, pp_valid,
                   unmapped_worklogs, prompts, failed_lookups, lookups>>
    /\ UNCHANGED notPrepareVars

NextPrepare ==
    \/ FetchTempoWorklogs
    \/ ProcessWorklog
    \/ ProcessDone
    \/ AskForArbauft
    \/ ShowSummary

SpecPrepare == InitPrepare /\ [][NextPrepare]_vars

\* -------------------------------------------------------- get_week_dates
\* datetime: the proleptic Gregorian calendar on day ordinals (day 1 is
\* 0001-01-01), as date.toordinal() and date.fromordinal() count.
IsLeap(y) == y % 4 = 0 /\ (y % 100 # 0 \/ y % 400 = 0)

DaysBeforeYear(y) == (y - 1) * 365 + (y - 1) \div 4 - (y - 1) \div 100 + (y - 1) \div 400

DaysInMonth(y, m) ==
    IF m = 2 THEN (IF IsLeap(y) THEN 29 ELSE 28)
    ELSE IF m \in {4, 6, 9, 11} THEN 30 ELSE 31

RECURSIVE DaysBeforeMonth(_, _)
DaysBeforeMonth(y, m) == IF m = 1 THEN 0 ELSE DaysBeforeMonth(y, m - 1) + DaysInMonth(y, m - 1)

ToOrdinal(y, m, d) == DaysBeforeYear(y) + DaysBeforeMonth(y, m) + d

FromOrdinal(n) ==
    LET y == CHOOSE yy \in (FirstYear - 1)..(LastYear + 1) :
                 DaysBeforeYear(yy) < n /\ n <= DaysBeforeYear(yy + 1)
        m == CHOOSE mm \in 1..12 :
                 /\ DaysBeforeMonth(y, mm) < n - DaysBeforeYear(y)
                 /\ n - DaysBeforeYear(y) <= DaysBeforeMonth(y, mm) + DaysInMonth(y, mm)
    IN  [year |-> y, month |-> m, day |-> n - DaysBeforeYear(y) - DaysBeforeMonth(y, m)]

\* date.weekday(): Monday is 0, Sunday is 6.
Weekday(n) == (n + 6) % 7

\* Decimal texts: the character of a digit, the digits of a number at a
\* width (zero padded), int() of a text of digits.
DigitChar(v) == <<"0", "1", "2", "3", "4", "5", "6", "7", "8", "9">>[v + 1]
DigitValue(c) == CHOOSE v \in 0..9 : DigitChar(v) = c

RECURSIVE ZeroPadded(_, _)
ZeroPadded(n, width) ==
    IF width = 0 THEN <<>> ELSE Append(ZeroPadded(n \div 10, width - 1), DigitChar(n % 10))

RECURSIVE IntOf(_)
IntOf(text) ==
    IF text = <<>> THEN 0
    ELSE IntOf(SubSeq(text, 1, Len(text) - 1)) * 10 + DigitValue(text[Len(text)])

\* strftime("%Y-%m-%d") of the date with ordinal n.
Strftime(n) ==
    LET date == FromOrdinal(n)
    IN  ZeroPadded(date.year, 4) \o <<"-">> \o ZeroPadded(date.month, 2)
            \o <<"-">> \o ZeroPadded(date.day, 2)

\* Mutant of AnchorDay: 1 January taken for a day of week 1.
AnchorDayFirst == 4 - 3

\* jan4 = datetime(year, 1, 4): Jan 4 is always in week 1.
AnchorDay == 4

\* get_week_dates(week_str).
GetWeekDates(week_str) ==
    LET year == IntOf(SubSeq(week_str, 1, 4))
        week == IntOf(SubSeq(week_str, 5, Len(week_str)))
        jan4 == ToOrdinal(year, 1, AnchorDay)
        start_of_week1 == jan4 - Weekday(jan4)
        week_start == start_of_week1 + 7 * (week - 1)
        week_end == week_start + 6
    IN  <<Strftime(week_start), Strftime(week_end)>>

\* ISO 8601, by the Thursday rule: a week belongs to the year its Thursday
\* lies in, and its number counts the Thursdays of that year.
IsoWeekOf(n) ==
    LET thursday == n - Weekday(n) + 3
        y == FromOrdinal(thursday).year
    IN  [year |-> y, week |-> (thursday - ToOrdinal(y, 1, 1)) \div 7 + 1]

\* The number of ISO weeks of a year: 28 December lies in the last one.
WeeksInYear(y) == IsoWeekOf(ToOrdinal(y, 12, 28)).week

\* The valid period codes YYYYWW of the years looked at.
PeriodCodes ==
    UNION {{ZeroPadded(y, 4) \o ZeroPadded(w, 2) : w \in 1..WeeksInYear(y)} :
              y \in FirstYear..LastYear}

\* The date a text "YYYY-MM-DD" names, as its ordinal.
DateOf(text) ==
    ToOrdinal(IntOf(SubSeq(text, 1, 4)), IntOf(SubSeq(text, 6, 7)), IntOf(SubSeq(text, 9, 10)))

DatesInit ==
    /\ week_arg \in PeriodCodes
    /\ date_range = <<>>

InitDates ==
    /\ SyncIdle /\ ExtractIdle /\ CreateIdle /\ WeekIdle /\ ReadyIdle /\ HoursIdle
    /\ PrepareIdle /\ DatesInit /\ MarkerIdle /\ DayDateIdle /\ FrameIdle /\ ConnectIdle
    /\ HoursTextIdle /\ RowIdle /\ RetryIdle /\ DeleteIdle /\ SaveIdle /\ RoundTripIdle

\* date_from, date_to = get_week_dates(week).
CallGetWeekDates ==
    /\ date_range = <<>>
    /\ date_range' = GetWeekDates(week_arg)
    /\ UNCHANGED week_arg
    /\ UNCHANGED notDatesVars

NextDates == CallGetWeekDates

SpecDates == InitDates /\ [][NextDates]_vars

\* ------------------------------------------------- Patterns.WORKLOG_MARKER
\* The pieces the searched texts are put together from.
MarkerPieces ==
    {<<"[", "W", "L", ":">>, <<"[", "I", "D", ":">>, <<"1", "7", "6", "4">>, <<"9", "9", "9", "9", "9">>,
     <<"]">>, <<" ", "w", "o", "r", "k", "i", "n", "g", " ", "o", "n", " ", "c", "o", "n", "c", "e", "p", "t">>,
     <<"x", " ">>}

RECURSIVE Flatten(_)
Flatten(pieces) == IF pieces = <<>> THEN <<>> ELSE Head(pieces) \o Flatten(Tail(pieces))

MarkerTexts == {Flatten(pieces) : pieces \in SeqsUpTo(MarkerPieces, MaxPieces)}

\* \d+ from position i on: the number of digits it takes (it takes all there
\* are; giving one back never helps, the next character of the pattern being
\* the bracket).
RECURSIVE DigitRun(_, _)
DigitRun(text, i) ==
    IF i <= Len(text) /\ text[i] \in Digit THEN 1 + DigitRun(text, i + 1) ELSE 0

\* \[WL:(\d+)\] tried at position i: group(1), or <<>> when it does not match
\* there.
MarkerMatchAt(text, i) ==
    LET n == DigitRun(text, i + 4)
    IN  IF /\ i + 5 <= Len(text)
           /\ SubSeq(text, i, i + 3) = <<"[", "W", "L", ":">>
           /\ n >= 1
           /\ i + 4 + n <= Len(text)
           /\ text[i + 4 + n] = "]"
        THEN SubSeq(text, i + 4, i + 3 + n)
        ELSE <<>>

\* Mutant of NextStart: the pattern is tried at the start of the text only
\* (match() in place of search()).
NextStartNone(text, i) == Len(text) + 1

\* search(): after a position where the pattern does not match, the next one.
NextStart(text, i) == i + 1

\* Patterns.WORKLOG_MARKER.search(text), from position i on.
RECURSIVE SearchFrom(_, _)
SearchFrom(text, i) ==
    IF i > Len(text) THEN <<>>
    ELSE IF MarkerMatchAt(text, i) # <<>> THEN MarkerMatchAt(text, i)
    ELSE SearchFrom(text, NextStart(text, i))

WorklogMarkerSearch(text) == SearchFrom(text, 1)

MarkerInit ==
    /\ mk_text \in MarkerTexts
    /\ mk_searched = FALSE
    /\ mk_found = <<>>

InitMarker ==
    /\ SyncIdle /\ ExtractIdle /\ CreateIdle /\ WeekIdle /\ ReadyIdle /\ HoursIdle
    /\ PrepareIdle /\ DatesIdle /\ MarkerInit /\ DayDateIdle /\ FrameIdle /\ ConnectIdle
    /\ HoursTextIdle /\ RowIdle /\ RetryIdle /\ DeleteIdle /\ SaveIdle /\ RoundTripIdle

\* wl_match = Patterns.WORKLOG_MARKER.search(text).
SearchMarker ==
    /\ ~mk_searched
    /\ mk_searched' = TRUE
    /\ mk_found' = WorklogMarkerSearch(mk_text)
    /\ UNCHANGED mk_text
    /\ UNCHANGED notMarkerVars

NextMarker == SearchMarker

SpecMarker == InitMarker /\ [][NextMarker]_vars

\* ------------------------------------------------------ Patterns.DAY_DATE
\* The alternatives of the first group, in the order of the pattern.
DayAbbrevs ==
    <<<<"M", "o">>, <<"D", "i">>, <<"M", "i">>, <<"D", "o">>,
      <<"F", "r">>, <<"S", "a">>, <<"S", "o">>, <<"M", "o", "n">>,
      <<"T", "u", "e">>, <<"W", "e", "d">>, <<"T", "h", "u">>, <<"F", "r", "i">>,
      <<"S", "a", "t">>, <<"S", "u", "n">>>>

\* Mutant of DateSeparators: the slash alone.
DateSeparatorsSlash == {"/"}

\* [/.]
DateSeparators == {"/", "."}

\* \s
Whitespace == {" ", "\t"}

\* \s+ from position i on: the number of characters it takes.
RECURSIVE WhitespaceRun(_, _)
WhitespaceRun(text, i) ==
    IF i <= Len(text) /\ text[i] \in Whitespace THEN 1 + WhitespaceRun(text, i + 1) ELSE 0

\* The labels: a leading part (none, or numerals put first), the first word,
\* the blank, the first numeral, the separator, the second numeral.
LabelParts ==
    [lead : {<<>>, <<"3", "/", "0", "2", " ">>},
     word : {DayAbbrevs[a] : a \in 1..Len(DayAbbrevs)}
                \cup {<<>>, <<"L", "u", "n">>, <<"T", "o", "t", "a", "l">>},
     blank : {<<>>, <<" ">>, <<" ", "\t">>},
     first : {<<>>, <<"3">>, <<"2", "7">>, <<"4", "0">>},
     sep : {<<>>, <<"/">>, <<".">>, <<":">>},
     second : {<<>>, <<"0", "2">>, <<"1", "1">>, <<"0", "0">>}]

LabelOf(parts) ==
    parts.lead \o parts.word \o parts.blank \o parts.first \o parts.sep \o parts.second

\* \s+(\d+)[/.](\d+) from position i on: the two numerals, <<>> when it does
\* not match there.
NumeralsAt(text, i) ==
    LET w == WhitespaceRun(text, i)
        d1 == DigitRun(text, i + w)
        at == i + w + d1
        d2 == DigitRun(text, at + 1)
    IN  IF w >= 1 /\ d1 >= 1 /\ at <= Len(text) /\ text[at] \in DateSeparators /\ d2 >= 1
        THEN <<SubSeq(text, i + w, at - 1), SubSeq(text, at + 1, at + d2)>>
        ELSE <<>>

\* The alternative a of the first group at the start of the text, followed
\* by the rest of the pattern.
AlternativeMatches(text, a) ==
    /\ Len(DayAbbrevs[a]) <= Len(text)
    /\ SubSeq(text, 1, Len(DayAbbrevs[a])) = DayAbbrevs[a]
    /\ NumeralsAt(text, Len(DayAbbrevs[a]) + 1) # <<>>

\* Patterns.DAY_DATE.match(label): the groups of the first alternative with
\* which the whole pattern matches.
DayDateMatch(label) ==
    LET fitting == {a \in 1..Len(DayAbbrevs) : AlternativeMatches(label, a)}
    IN  IF fitting = {} THEN <<>>
        ELSE LET a == CHOOSE b \in fitting : \A c \in fitting : b <= c
             IN  <<DayAbbrevs[a]>> \o NumeralsAt(label, Len(DayAbbrevs[a]) + 1)

DayDateInit ==
    /\ dd_parts \in LabelParts
    /\ dd_matched = FALSE
    /\ dd_groups = <<>>

InitDayDate ==
    /\ SyncIdle /\ ExtractIdle /\ CreateIdle /\ WeekIdle /\ ReadyIdle /\ HoursIdle
    /\ PrepareIdle /\ DatesIdle /\ MarkerIdle /\ DayDateInit /\ FrameIdle /\ ConnectIdle
    /\ HoursTextIdle /\ RowIdle /\ RetryIdle /\ DeleteIdle /\ SaveIdle /\ RoundTripIdle

\* m = Patterns.DAY_DATE.match(label).
MatchDayDate ==
    /\ ~dd_matched
    /\ dd_matched' = TRUE
    /\ dd_groups' = DayDateMatch(LabelOf(dd_parts))
    /\ UNCHANGED dd_parts
    /\ UNCHANGED notDayDateVars

NextDayDate == MatchDayDate

SpecDayDate == InitDayDate /\ [][NextDayDate]_vars

\* ----------------------------------------- FrameManager.get_content_frame
\* What a frame of the page is to get_content_frame(): "content" has
\* "ContentContainer" in its URL; "period" has not, and holds the period
\* input; "raises" has not, and the look for the period input raises in it;
\* "other" has neither.
FrameKinds == {"content", "period", "raises", "other"}

\* page.frames: the main frame and up to MaxFrames frames in it.
FrameLists == {<<main>> \o inner : main \in FrameKinds, inner \in SeqsUpTo(FrameKinds, MaxFrames)}

\* The first frame of a kind (0: none).
FirstOfKind(frames, kind) ==
    IF \E i \in 1..Len(frames) : frames[i] = kind
    THEN CHOOSE i \in 1..Len(frames) :
             frames[i] = kind /\ \A j \in 1..(i - 1) : frames[j] # kind
    ELSE 0

\* Mutant of FoundFrame: the frame with the period input is taken before the
\* frame with the URL.
FoundFramePeriodFirst(frames) ==
    IF FirstOfKind(frames, "period") # 0 THEN FirstOfKind(frames, "period")
    ELSE FirstOfKind(frames, "content")

\* The two loops of get_content_frame(): the frame they return and keep in
\* self._content_frame (0: neither loop returns).
FoundFrame(frames) ==
    IF FirstOfKind(frames, "content") # 0 THEN FirstOfKind(frames, "content")
    ELSE FirstOfKind(frames, "period")

\* return self.page.main_frame.
MainFrame == 1

FrameInit ==
    /\ page_frames \in FrameLists
    /\ content_frame = 0
    /\ fm_calls = 0
    /\ fm_reloaded = FALSE
    /\ fm_from_cache = FALSE
    /\ fm_result = 0

InitFrame ==
    /\ SyncIdle /\ ExtractIdle /\ CreateIdle /\ WeekIdle /\ ReadyIdle /\ HoursIdle
    /\ PrepareIdle /\ DatesIdle /\ MarkerIdle /\ DayDateIdle /\ FrameInit /\ ConnectIdle
    /\ HoursTextIdle /\ RowIdle /\ RetryIdle /\ DeleteIdle /\ SaveIdle /\ RoundTripIdle

\* The calls looked at: a first one, one after it, and one after the page
\* replaced its frames.
FrameCalls == 3

\* await self.frame_manager.get_content_frame(refresh).
GetContentFrame ==
    /\ fm_calls < FrameCalls
    /\ fm_calls' = fm_calls + 1
    /\ \E refresh \in BOOLEAN :
          IF content_frame # 0 /\ ~refresh
          THEN /\ fm_from_cache' = TRUE
               /\ fm_result' = content_frame
               /\ UNCHANGED content_frame
          ELSE /\ fm_from_cache' = FALSE
               /\ IF FoundFrame(page_frames) # 0
                  THEN /\ content_frame' = FoundFrame(page_frames)
                       /\ fm_result' = FoundFrame(page_frames)
                  ELSE /\ UNCHANGED content_frame
                       /\ fm_result' = MainFrame
    /\ UNCHANGED <<page_frames, fm_reloaded>>
    /\ UNCHANGED notFrameVars

\* The page navigates: its frames are replaced (self._content_frame keeps
\* the frame it was given before).
FramesReplaced ==
    /\ fm_calls >= 1
    /\ ~fm_reloaded
    /\ fm_reloaded' = TRUE
    /\ page_frames' \in FrameLists
    /\ fm_result' = 0
    /\ fm_from_cache' = FALSE
    /\ UNCHANGED <<content_frame, fm_calls>>
    /\ UNCHANGED notFrameVars

NextFrameManager ==
    \/ GetContentFrame
    \/ FramesReplaced

SpecFrame == InitFrame /\ [][NextFrameManager]_vars

\* ------------- login_and_navigate / Unit4Browser.navigate_to_zeiterfassung
\* The two functions run the same steps. login_and_navigate() reads the
\* title outside every try and looks for "Login" in it;
\* Unit4Browser.check_session_valid() looks for "Login" and "Anmelden" and
\* takes a title it cannot read for a login page.
ConnectImplementations == {"login_and_navigate", "Unit4Browser.navigate_to_zeiterfassung"}

\* The titles the page can have, in words.
Titles == {<<"Unit4", "ERP">>, <<"Unit4", "Login">>, <<"Anmelden">>, <<>>}

\* word in title.
InTitleText(word, title) == \E w \in 1..Len(title) : title[w] = word

\* Mutant of LoginIndicators: the English word alone.
LoginIndicatorsEnglish == {"Login"}

\* check_session_valid(): "Login" in title or "Anmelden" in title.
LoginIndicators == {"Login", "Anmelden"}

\* not await self.check_session_valid().
LoginRequired(title, raises) ==
    raises \/ \E word \in LoginIndicators : InTitleText(word, title)

\* Mutant of ConnectPolls: one more poll.
ConnectPollsMore == 15 + 1

\* for i in range(15).
ConnectPolls == 15

\* The frames a resolution of the content frame can give.
ResolvedFrames == {1, 2}

ConnectInit ==
    /\ cn_impl \in ConnectImplementations
    /\ cn_step = "goto"
    /\ cn_title = <<>>
    /\ cn_title_raises = FALSE
    /\ session_before \in {"none", "saved by an earlier run"}
    /\ session_file = session_before
    /\ cn_trace = <<>>
    /\ cn_i = 0
    /\ cn_resolved = 0
    /\ cn_frame = 0
    /\ cn_seen = FALSE
    /\ cn_result = 0

InitConnect ==
    /\ SyncIdle /\ ExtractIdle /\ CreateIdle /\ WeekIdle /\ ReadyIdle /\ HoursIdle
    /\ PrepareIdle /\ DatesIdle /\ MarkerIdle /\ DayDateIdle /\ FrameIdle /\ ConnectInit
    /\ HoursTextIdle /\ RowIdle /\ RetryIdle /\ DeleteIdle /\ SaveIdle /\ RoundTripIdle

\* An exception leaves the function.
ConnectRaises ==
    /\ cn_step' = "raised"
    /\ cn_result' = -1

\* page.goto(url) and the wait for the load: the page has some title then.
OpenUnit4 ==
    /\ cn_step = "goto"
    /\ cn_trace' = Append(cn_trace, "goto")
    /\ \E title \in Titles, title_raises \in BOOLEAN, raised \in BOOLEAN :
          IF raised
          THEN /\ ConnectRaises
               /\ UNCHANGED <<cn_title, cn_title_raises>>
          ELSE /\ cn_title' = title
               /\ cn_title_raises' = title_raises
               /\ cn_step' = "session"
               /\ UNCHANGED cn_result
    /\ UNCHANGED <<cn_impl, session_before, session_file, cn_i, cn_resolved, cn_frame,
                   cn_seen>>
    /\ UNCHANGED notConnectVars

\* The test of the title: a login is asked for, or the menu is next.
CheckSessionValid ==
    /\ cn_step = "session"
    /\ IF cn_impl = "login_and_navigate"
       THEN IF cn_title_raises
            THEN /\ ConnectRaises
                 /\ UNCHANGED cn_trace
            ELSE IF InTitleText("Login", cn_title)
            THEN /\ cn_step' = "login"
                 /\ cn_trace' = Append(cn_trace, "login_prompt")
                 /\ UNCHANGED cn_result
            ELSE /\ cn_step' = "menu"
                 /\ UNCHANGED <<cn_trace, cn_result>>
       ELSE IF LoginRequired(cn_title, cn_title_raises)
            THEN /\ cn_step' = "login"
                 /\ cn_trace' = Append(cn_trace, "login_prompt")
                 /\ UNCHANGED cn_result
            ELSE /\ cn_step' = "menu"
                 /\ UNCHANGED <<cn_trace, cn_result>>
    /\ UNCHANGED <<cn_impl, cn_title, cn_title_raises, session_before, session_file, cn_i,
                   cn_resolved, cn_frame, cn_seen>>
    /\ UNCHANGED notConnectVars

\* The operator logs in and presses ENTER; the storage state of the context
\* is written to the session file. The input at its end, or a failed write,
\* raises.
OperatorLoggedIn ==
    /\ cn_step = "login"
    /\ \E raised \in BOOLEAN :
          IF raised
          THEN /\ ConnectRaises
               /\ UNCHANGED <<session_file, cn_trace>>
          ELSE /\ session_file' = "saved by this run"
               /\ cn_trace' = Append(cn_trace, "session_saved")
               /\ cn_step' = "menu"
               /\ UNCHANGED cn_result
    /\ UNCHANGED <<cn_impl, cn_title, cn_title_raises, session_before, cn_i, cn_resolved,
                   cn_frame, cn_seen>>
    /\ UNCHANGED notConnectVars

\* The menu entry: if menu.count() > 0 it is clicked; an exception (of
\* count() or of the click, the timeout included) asks the operator to
\* navigate by hand; with count() = 0 nothing is done.
OpenZeiterfassung ==
    /\ cn_step = "menu"
    /\ \E how \in {"clicked", "raised", "not_located"} :
          /\ cn_trace' = CASE how = "clicked" -> Append(cn_trace, "menu_click")
                           [] how = "raised" -> Append(cn_trace, "menu_prompt")
                           [] OTHER -> cn_trace
          /\ cn_step' = IF how = "raised" THEN "menu_prompt" ELSE "load"
    /\ UNCHANGED <<cn_impl, cn_title, cn_title_raises, session_before, session_file, cn_i,
                   cn_resolved, cn_frame, cn_seen, cn_result>>
    /\ UNCHANGED notConnectVars

\* The operator navigated and pressed ENTER (or the input is at its end).
OperatorNavigated ==
    /\ cn_step = "menu_prompt"
    /\ cn_step' = "load"
    /\ UNCHANGED <<cn_impl, cn_title, cn_title_raises, session_before, session_file,
                   cn_trace, cn_i, cn_resolved, cn_frame, cn_seen, cn_result>>
    /\ UNCHANGED notConnectVars

\* await page.wait_for_load_state("networkidle"), outside every try.
WaitForLoadState ==
    /\ cn_step = "load"
    /\ \E raised \in BOOLEAN :
          IF raised THEN ConnectRaises
          ELSE /\ cn_step' = "poll"
               /\ UNCHANGED cn_result
    /\ UNCHANGED <<cn_impl, cn_title, cn_title_raises, session_before, session_file,
                   cn_trace, cn_i, cn_resolved, cn_frame, cn_seen>>
    /\ UNCHANGED notConnectVars

\* One iteration of the wait for the period input: the content frame is
\* resolved anew, the input is looked for in it (an exception counts as not
\* visible); visible: return frame; else sleep, and after the last iteration
\* "timeout, continuing anyway" and return frame.
PollPeriodInput ==
    /\ cn_step = "poll"
    /\ cn_resolved' = cn_resolved + 1
    /\ \E frame \in ResolvedFrames, visible \in BOOLEAN, raised \in BOOLEAN :
          /\ cn_frame' = frame
          /\ cn_seen' = (visible /\ ~raised)
          /\ IF visible /\ ~raised
             THEN /\ cn_step' = "returned"
                  /\ cn_result' = frame
                  /\ UNCHANGED cn_i
             ELSE IF cn_i + 1 < ConnectPolls
             THEN /\ cn_i' = cn_i + 1
                  /\ UNCHANGED <<cn_step, cn_result>>
             ELSE /\ cn_step' = "returned"
                  /\ cn_result' = frame
                  /\ UNCHANGED cn_i
    /\ UNCHANGED <<cn_impl, cn_title, cn_title_raises, session_before, session_file,
                   cn_trace>>
    /\ UNCHANGED notConnectVars

NextConnect ==
    \/ OpenUnit4
    \/ CheckSessionValid
    \/ OperatorLoggedIn
    \/ OpenZeiterfassung
    \/ OperatorNavigated
    \/ WaitForLoadState
    \/ PollPeriodInput

SpecConnect == InitConnect /\ [][NextConnect]_vars

\* ---------------------------------------------- hours: seconds to the cell
\* A float is kept as the fraction it stands for (the doubles of the
\* quotients looked at differ from them by less than 1e-16, and str() of a
\* double gives the shortest digits that read back to it: the digits of the
\* quotient where they end, 16 or 17 digits of it where they do not).
\*
\* hours = wl["timeSpentSeconds"] / 3600.
SecondsPerHour == 3600
HoursOfSeconds(seconds) == [num |-> seconds, den |-> SecondsPerHour]

\* The decimal places str() writes of a quotient whose digits do not end.
ReprPlaces == 16

\* The digits of n, without padding.
RECURSIVE Decimal(_)
Decimal(n) == IF n < 10 THEN <<DigitChar(n)>> ELSE Append(Decimal(n \div 10), DigitChar(n % 10))

\* The digits after the point of rest/den, by long division, up to places.
RECURSIVE FractionDigits(_, _, _)
FractionDigits(rest, den, places) ==
    IF rest = 0 \/ places = 0 THEN <<>>
    ELSE <<DigitChar((rest * 10) \div den)>>
             \o FractionDigits((rest * 10) % den, den, places - 1)

\* hours_str = str(hours): the whole part, the point, the digits after it
\* ("1.0" for a whole number).
StrOfFloat(x) ==
    LET fraction == FractionDigits(x.num % x.den, x.den, ReprPlaces)
    IN  Decimal(x.num \div x.den) \o <<".">>
            \o (IF fraction = <<>> THEN <<"0">> ELSE fraction)

HoursTextInit ==
    /\ hr_step = "raw"
    /\ hr_seconds \in {60 * minutes : minutes \in 1..MaxMinutes}
    /\ hr_hours = [num |-> 0, den |-> 1]
    /\ hr_typed = <<>>

InitHoursText ==
    /\ SyncIdle /\ ExtractIdle /\ CreateIdle /\ WeekIdle /\ ReadyIdle /\ HoursIdle
    /\ PrepareIdle /\ DatesIdle /\ MarkerIdle /\ DayDateIdle /\ FrameIdle /\ ConnectIdle
    /\ HoursTextInit /\ RowIdle /\ RetryIdle /\ DeleteIdle /\ SaveIdle /\ RoundTripIdle

\* process_worklogs(): hours = wl["timeSpentSeconds"] / 3600.
DeriveHours ==
    /\ hr_step = "raw"
    /\ hr_step' = "processed"
    /\ hr_hours' = HoursOfSeconds(hr_seconds)
    /\ UNCHANGED <<hr_seconds, hr_typed>>
    /\ UNCHANGED notHoursTextVars

\* fill_hours_by_date(): hours_str = str(hours), the text that is filled in
\* or typed.
TypeHours ==
    /\ hr_step = "processed"
    /\ hr_step' = "typed"
    /\ hr_typed' = StrOfFloat(hr_hours)
    /\ UNCHANGED <<hr_seconds, hr_hours>>
    /\ UNCHANGED notHoursTextVars

NextHoursText ==
    \/ DeriveHours
    \/ TypeHours

SpecHoursText == InitHoursText /\ [][NextHoursText]_vars

\* ------------------- read_zeitdetails_structure: the day row of a date
RowImplementations ==
    {"read_zeitdetails_structure", "Unit4Browser._read_zeitdetails_structure"}

\* How the page writes the labels of its day rows: the abbreviations of the
\* locale, the separator, and which numeral comes first ("Mo 1/26",
\* "Di 27/01", "Fri 14.11").
Renderings == [locale : {"de", "en"}, sep : {"/", "."}, day_first : BOOLEAN]

\* The label of the day with ordinal n.
RenderLabel(n, rendering) ==
    LET date == FromOrdinal(n)
        word == DayAbbrevs[Weekday(n) + 1 + (IF rendering.locale = "en" THEN 7 ELSE 0)]
        one == IF rendering.day_first THEN date.day ELSE date.month
        two == IF rendering.day_first THEN date.month ELSE date.day
    IN  word \o <<" ">> \o Decimal(one) \o <<rendering.sep>> \o ZeroPadded(two, 2)

\* The rows of the page: the day looked for and the day after it.
RenderedRows(n, rendering) == <<RenderLabel(n, rendering), RenderLabel(n + 1, rendering)>>

\* frame.locator("text=/^(Mo|Di|Mi|Do|Fr|Sa|So) \d+\/\d+/") and
\* frame.locator("text=/^(Mon|Tue|Wed|Thu|Fri|Sat|Sun) \d+\.\d+/"): the
\* label starts with one of the abbreviations from..to, a blank, digits,
\* the separator and a digit.
LocatorFinds(label, from, to, separator) ==
    \E a \in from..to :
        LET k == Len(DayAbbrevs[a])
            d1 == DigitRun(label, k + 2)
        IN  /\ k + 1 <= Len(label)
            /\ SubSeq(label, 1, k) = DayAbbrevs[a]
            /\ label[k + 1] = " "
            /\ d1 >= 1
            /\ k + 2 + d1 <= Len(label)
            /\ label[k + 2 + d1] = separator
            /\ DigitRun(label, k + 3 + d1) >= 1

\* The rows day_rows holds.
Located(name, label) ==
    IF name = "read_zeitdetails_structure"
    THEN LocatorFinds(label, 1, 7, "/")
    ELSE LocatorFinds(label, 8, 14, ".")

\* re.match(r"^(Mo|Di|Mi|Do|Fr|Sa|So)\s+(\d+)/(\d+)", label) of
\* read_zeitdetails_structure() (a label the pattern matches is one DAY_DATE
\* matches with a German abbreviation and the slash), Patterns.DAY_DATE.match
\* of the class.
RowMatch(name, label) ==
    IF name = "read_zeitdetails_structure" /\ ~LocatorFinds(label, 1, 7, "/")
    THEN <<>>
    ELSE DayDateMatch(label)

\* The year given to a label: current_year - 1 for a December label read in
\* January, current_year + 1 for a January label read in December.
AssignedYear(month, now) ==
    IF month = 12 /\ now.month = 1 THEN now.year - 1
    ELSE IF month = 1 /\ now.month = 12 THEN now.year + 1
    ELSE now.year

\* date_str = f"{year}-{month:02d}-{day:02d}" with day_name, month, day =
\* match.groups().
DateStrOfLabel(groups, now) ==
    LET month == IntOf(groups[2])
        day == IntOf(groups[3])
    IN  Decimal(AssignedYear(month, now)) \o <<"-">> \o ZeroPadded(month, 2)
            \o <<"-">> \o ZeroPadded(day, 2)

\* date_to_label after the loop over day_rows: a later row replaces an
\* earlier one with the same date_str.
RECURSIVE ReadRows(_, _, _)
ReadRows(name, rows, now) ==
    IF rows = <<>> THEN <<>>
    ELSE LET before == ReadRows(name, SubSeq(rows, 1, Len(rows) - 1), now)
             label == rows[Len(rows)]
             groups == RowMatch(name, label)
         IN  IF Located(name, label) /\ groups # <<>>
             THEN LET key == DateStrOfLabel(groups, now)
                  IN  SelectSeq(before, LAMBDA pair : pair[1] # key) \o <<<<key, label>>>>
             ELSE before

\* date_to_label[date_str] (<<>>: date_str not in date_to_label).
LabelOfDate(labels, date_str) ==
    IF \E i \in 1..Len(labels) : labels[i][1] = date_str
    THEN labels[CHOOSE i \in 1..Len(labels) : labels[i][1] = date_str][2]
    ELSE <<>>

\* The days and months of the dates looked for.
TargetDays == {<<12, 29>>, <<12, 31>>, <<1, 1>>, <<1, 26>>, <<2, 3>>}

RowInit ==
    /\ rs_impl \in RowImplementations
    /\ rs_step = "rendered"
    /\ rs_now \in [year : (FirstYear + 1)..(LastYear - 1), month : {1, 2, 12}]
    /\ rs_target \in {ToOrdinal(y, md[1], md[2]) :
                         y \in (rs_now.year - 1)..(rs_now.year + 1), md \in TargetDays}
    /\ rs_render \in Renderings
    /\ date_to_label = <<>>
    /\ rs_selected = <<>>

InitRow ==
    /\ SyncIdle /\ ExtractIdle /\ CreateIdle /\ WeekIdle /\ ReadyIdle /\ HoursIdle
    /\ PrepareIdle /\ DatesIdle /\ MarkerIdle /\ DayDateIdle /\ FrameIdle /\ ConnectIdle
    /\ HoursTextIdle /\ RowInit /\ RetryIdle /\ DeleteIdle /\ SaveIdle /\ RoundTripIdle

\* date_to_label = await read_zeitdetails_structure(frame).
ReadStructure ==
    /\ rs_step = "rendered"
    /\ rs_step' = "read"
    /\ date_to_label' = ReadRows(rs_impl, RenderedRows(rs_target, rs_render), rs_now)
    /\ UNCHANGED <<rs_impl, rs_now, rs_target, rs_render, rs_selected>>
    /\ UNCHANGED notRowVars

\* if date_str not in date_to_label: ...; day_label = date_to_label[date_str].
SelectRow ==
    /\ rs_step = "read"
    /\ rs_step' = "selected"
    /\ rs_selected' = LabelOfDate(date_to_label, Strftime(rs_target))
    /\ UNCHANGED <<rs_impl, rs_now, rs_target, rs_render, date_to_label>>
    /\ UNCHANGED notRowVars

NextRow ==
    \/ ReadStructure
    \/ SelectRow

SpecRow == InitRow /\ [][NextRow]_vars

\* ------------------------------------------------------------ retry_async
\* What one call of operation() does: it returns a value (exc is "") or
\* raises an exception.
OperationOutcomes ==
    {[exc |-> "", value |-> v] : v \in {"a", "b"}}
        \cup {[exc |-> e, value |-> ""] : e \in {"E1", "E2"}}

\* The calls retry_async() makes, as they are written to ra_trace.
OperationCall(n, outcome) ==
    [ev |-> "operation", n |-> n, exc |-> outcome.exc, value |-> outcome.value]
OnRetryCall(n, e) == [ev |-> "on_retry", n |-> n, exc |-> e, value |-> ""]
SleepCall == [ev |-> "sleep", n |-> 0, exc |-> "", value |-> ""]

\* Mutant of RetryFollows: the last attempt is followed by a retry too.
RetryFollowsAlways(k, max_attempts) == k < max_attempts

\* if attempt < max_attempts - 1.
RetryFollows(k, max_attempts) == k < max_attempts - 1

RetryInit ==
    /\ ra_max \in 0..MaxAttemptsArg
    /\ ra_on_retry \in BOOLEAN
    /\ ra_attempt = 0
    /\ ra_step = "loop"
    /\ ra_trace = <<>>
    /\ ra_result = "none"

InitRetry ==
    /\ SyncIdle /\ ExtractIdle /\ CreateIdle /\ WeekIdle /\ ReadyIdle /\ HoursIdle
    /\ PrepareIdle /\ DatesIdle /\ MarkerIdle /\ DayDateIdle /\ FrameIdle /\ ConnectIdle
    /\ HoursTextIdle /\ RowIdle /\ RetryInit /\ DeleteIdle /\ SaveIdle /\ RoundTripIdle

\* One iteration of "for attempt in range(max_attempts)": operation() is
\* awaited; its value is returned, or its exception is caught and, when
\* another attempt follows, on_retry is called and the delay is slept.
Attempt ==
    /\ ra_step = "loop"
    /\ ra_attempt < ra_max
    /\ \E outcome \in OperationOutcomes :
          LET called == Append(ra_trace, OperationCall(ra_attempt + 1, outcome))
          IN  IF outcome.exc = ""
              THEN /\ ra_trace' = called
                   /\ ra_step' = "returned"
                   /\ ra_result' = outcome.value
                   /\ UNCHANGED ra_attempt
              ELSE /\ ra_trace' =
                         IF RetryFollows(ra_attempt, ra_max)
                         THEN called
                                  \o (IF ra_on_retry
                                      THEN <<OnRetryCall(ra_attempt + 1, outcome.exc)>>
                                      ELSE <<>>)
                                  \o <<SleepCall>>
                         ELSE called
                   /\ ra_attempt' = ra_attempt + 1
                   /\ UNCHANGED <<ra_step, ra_result>>
    /\ UNCHANGED <<ra_max, ra_on_retry>>
    /\ UNCHANGED notRetryVars

\* return None, after the loop.
ReturnNone ==
    /\ ra_step = "loop"
    /\ ra_attempt >= ra_max
    /\ ra_step' = "returned"
    /\ ra_result' = "None"
    /\ UNCHANGED <<ra_max, ra_on_retry, ra_attempt, ra_trace>>
    /\ UNCHANGED notRetryVars

NextRetry ==
    \/ Attempt
    \/ ReturnNone

SpecRetry == InitRetry /\ [][NextRetry]_vars

\* ------------------------------------------- Unit4Browser.delete_entries
\* Mutant of CountMarked: every entry is counted.
CountMarkedAll(count, was_marked) == count + 1

\* if await self._mark_entry_for_deletion(frame, entry): marked_count += 1.
CountMarked(count, was_marked) == IF was_marked THEN count + 1 ELSE count

DeleteInit ==
    /\ de_dry_run \in BOOLEAN
    /\ de_count \in 0..(MaxWl + 1)
    /\ de_step = "call"
    /\ de_i = 1
    /\ de_clicked = {}
    /\ de_marked_count = 0
    /\ de_trace = <<>>
    /\ de_gone = {}
    /\ de_result = -1

InitDelete ==
    /\ SyncIdle /\ ExtractIdle /\ CreateIdle /\ WeekIdle /\ ReadyIdle /\ HoursIdle
    /\ PrepareIdle /\ DatesIdle /\ MarkerIdle /\ DayDateIdle /\ FrameIdle /\ ConnectIdle
    /\ HoursTextIdle /\ RowIdle /\ RetryIdle /\ DeleteInit /\ SaveIdle /\ RoundTripIdle

\* if dry_run: return len(entries); else the frame is asked for and an open
\* detail view is closed.
DeleteCall ==
    /\ de_step = "call"
    /\ IF de_dry_run
       THEN /\ de_step' = "returned"
            /\ de_result' = de_count
            /\ UNCHANGED de_trace
       ELSE /\ de_step' = "mark"
            /\ de_trace' = Append(de_trace, "close_detail_view")
            /\ UNCHANGED de_result
    /\ UNCHANGED <<de_dry_run, de_count, de_i, de_clicked, de_marked_count, de_gone>>
    /\ UNCHANGED notDeleteVars

\* One iteration of "for entry in entries": _mark_entry_for_deletion()
\* returns True when it clicked the checkbox of the entry's row, False when
\* the row or the checkbox was not found or an exception was caught.
MarkEntryForDeletion ==
    /\ de_step = "mark"
    /\ de_i <= de_count
    /\ \E was_marked \in BOOLEAN :
          /\ de_clicked' = IF was_marked THEN de_clicked \cup {de_i} ELSE de_clicked
          /\ de_marked_count' = CountMarked(de_marked_count, was_marked)
    /\ de_i' = de_i + 1
    /\ UNCHANGED <<de_dry_run, de_count, de_step, de_trace, de_gone, de_result>>
    /\ UNCHANGED notDeleteVars

\* After the loop: if marked_count > 0 the operator is asked to press ENTER;
\* else marked_count is returned.
AfterMarking ==
    /\ de_step = "mark"
    /\ de_i > de_count
    /\ IF de_marked_count > 0
       THEN /\ de_step' = "confirm"
            /\ UNCHANGED de_result
       ELSE /\ de_step' = "returned"
            /\ de_result' = de_marked_count
    /\ UNCHANGED <<de_dry_run, de_count, de_i, de_clicked, de_marked_count, de_trace,
                   de_gone>>
    /\ UNCHANGED notDeleteVars

\* input() returns (ENTER, or end of input).
OperatorPressedEnter ==
    /\ de_step = "confirm"
    /\ de_step' = "delete"
    /\ de_trace' = Append(de_trace, "input")
    /\ UNCHANGED <<de_dry_run, de_count, de_i, de_clicked, de_marked_count, de_gone,
                   de_result>>
    /\ UNCHANGED notDeleteVars

\* if await self._click_button(frame, "Delete"): "Yes", "OK", self.save();
\* else "button not found"; return marked_count. The remote UI removes some
\* of the rows whose checkbox was clicked.
ClickDelete ==
    /\ de_step = "delete"
    /\ \/ \E gone \in SUBSET de_clicked :
            /\ de_trace' = de_trace \o <<"Delete", "Yes", "OK", "save">>
            /\ de_gone' = gone
       \/ /\ de_trace' = Append(de_trace, "Delete not found")
          /\ UNCHANGED de_gone
    /\ de_step' = "returned"
    /\ de_result' = de_marked_count
    /\ UNCHANGED <<de_dry_run, de_count, de_i, de_clicked, de_marked_count>>
    /\ UNCHANGED notDeleteVars

NextDelete ==
    \/ DeleteCall
    \/ MarkEntryForDeletion
    \/ AfterMarking
    \/ OperatorPressedEnter
    \/ ClickDelete

SpecDelete == InitDelete /\ [][NextDelete]_vars

\* ------------------------------------- Unit4Browser.save / sync(), "[8]"
\* The method and the block of sync() try the same three ways to save; the
\* method then clicks OK in the frame and in the page, the block does not.
SaveImplementations == {"Unit4Browser.save", "sync"}

\* What the remote UI shows: a Save control in the content frame, one in the
\* page, and where the OK dialog that follows a save comes up ("none": no
\* dialog follows).
SaveControls ==
    [frame_save : BOOLEAN, page_save : BOOLEAN, ok_dialog : {"none", "frame", "page"}]

SaveInit ==
    /\ sv_impl \in SaveImplementations
    /\ sv_step = "frame"
    /\ sv_controls \in SaveControls
    /\ sv_saved = FALSE
    /\ sv_trace = <<>>
    /\ sv_dialog = FALSE

InitSave ==
    /\ SyncIdle /\ ExtractIdle /\ CreateIdle /\ WeekIdle /\ ReadyIdle /\ HoursIdle
    /\ PrepareIdle /\ DatesIdle /\ MarkerIdle /\ DayDateIdle /\ FrameIdle /\ ConnectIdle
    /\ HoursTextIdle /\ RowIdle /\ RetryIdle /\ DeleteIdle /\ SaveInit /\ RoundTripIdle

\* saved = await self._click_button(frame, "Save").
ClickSaveInFrame ==
    /\ sv_step = "frame"
    /\ sv_trace' = Append(sv_trace, "Save in frame")
    /\ sv_saved' = sv_controls.frame_save
    /\ sv_step' = IF sv_controls.frame_save THEN "saved" ELSE "page"
    /\ sv_dialog' = (sv_controls.frame_save /\ sv_controls.ok_dialog # "none")
    /\ UNCHANGED <<sv_impl, sv_controls>>
    /\ UNCHANGED notSaveVars

\* if not saved: saved = await self._click_button(self.page, "Save").
ClickSaveInPage ==
    /\ sv_step = "page"
    /\ sv_trace' = Append(sv_trace, "Save in page")
    /\ sv_saved' = sv_controls.page_save
    /\ sv_step' = IF sv_controls.page_save THEN "saved" ELSE "keyboard"
    /\ sv_dialog' = (sv_controls.page_save /\ sv_controls.ok_dialog # "none")
    /\ UNCHANGED <<sv_impl, sv_controls>>
    /\ UNCHANGED notSaveVars

\* if not saved: await self.page.keyboard.press("Control+s"); saved = True.
PressControlS ==
    /\ sv_step = "keyboard"
    /\ sv_trace' = Append(sv_trace, "Control+s")
    /\ sv_saved' = TRUE
    /\ sv_step' = "saved"
    /\ sv_dialog' = (sv_controls.ok_dialog # "none")
    /\ UNCHANGED <<sv_impl, sv_controls>>
    /\ UNCHANGED notSaveVars

\* if saved: await self._click_button(frame, "OK") of the method: the
\* dialog is closed when it is in the frame.
ClickOkInFrame ==
    /\ sv_step = "saved"
    /\ sv_impl = "Unit4Browser.save"
    /\ sv_step' = "ok_page"
    /\ sv_trace' = Append(sv_trace, "OK in frame")
    /\ sv_dialog' = (sv_dialog /\ sv_controls.ok_dialog # "frame")
    /\ UNCHANGED <<sv_impl, sv_controls, sv_saved>>
    /\ UNCHANGED notSaveVars

\* await self._click_button(self.page, "OK"); return saved.
ClickOkInPage ==
    /\ sv_step = "ok_page"
    /\ sv_step' = "returned"
    /\ sv_trace' = Append(sv_trace, "OK in page")
    /\ sv_dialog' = (sv_dialog /\ sv_controls.ok_dialog # "page")
    /\ UNCHANGED <<sv_impl, sv_controls, sv_saved>>
    /\ UNCHANGED notSaveVars

\* if saved: the block of sync() sleeps and prints "Saved!".
PrintSaved ==
    /\ sv_step = "saved"
    /\ sv_impl = "sync"
    /\ sv_step' = "returned"
    /\ UNCHANGED <<sv_impl, sv_controls, sv_saved, sv_trace, sv_dialog>>
    /\ UNCHANGED notSaveVars

NextSave ==
    \/ ClickSaveInFrame
    \/ ClickSaveInPage
    \/ PressControlS
    \/ ClickOkInFrame
    \/ ClickOkInPage
    \/ PrintSaved

SpecSave == InitSave /\ [][NextSave]_vars

\* ------------------------------------- the Text field: written, then parsed
\* str.strip(): the whitespace at both ends is dropped.
RECURSIVE LStrip(_)
LStrip(text) ==
    IF text # <<>> /\ Head(text) \in Whitespace THEN LStrip(Tail(text)) ELSE text

RECURSIVE RStrip(_)
RStrip(text) ==
    IF text # <<>> /\ text[Len(text)] \in Whitespace
    THEN RStrip(SubSeq(text, 1, Len(text) - 1))
    ELSE text

Strip(text) == RStrip(LStrip(text))

\* description = worklog.description.strip() if worklog.description
\*               else worklog.issue_summary
\* (a description of blanks only is not empty: it is stripped to nothing and
\* the summary is not used).
DescriptionOf(worklog_description, issue_summary) ==
    IF worklog_description # <<>> THEN Strip(worklog_description) ELSE issue_summary

\* The characters of the description that are written.
TextLimit == 60

\* description[:60].
Cut(text) == SubSeq(text, 1, IF Len(text) < TextLimit THEN Len(text) ELSE TextLimit)

\* The same text with the marker put after the description.
WrittenTextMarkerLast(worklog_id, description) ==
    Cut(description) \o <<" ", "[", "W", "L", ":">> \o Decimal(worklog_id) \o <<"]">>

\* text = f"[WL:{worklog.worklog_id}] {description[:60]}".
WrittenText(worklog_id, description) ==
    <<"[", "W", "L", ":">> \o Decimal(worklog_id) \o <<"]", " ">> \o Cut(description)

\* n times the character c.
RECURSIVE Filler(_, _)
Filler(c, n) == IF n = 0 THEN <<>> ELSE <<c>> \o Filler(c, n - 1)

\* The descriptions and summaries looked at: blanks, words, a marker token of
\* another worklog, and a run of 57 characters that puts what follows it
\* across the cut.
DescriptionPieces ==
    {<<" ">>, <<"f", "i", "x">>, <<"[", "W", "L", ":", "4", "2", "]">>, Filler("x", 57)}

Descriptions == {Flatten(pieces) : pieces \in SeqsUpTo(DescriptionPieces, MaxDescriptionPieces)}

Summaries ==
    {<<>>, <<"F", "i", "x", " ", "l", "o", "g", "i", "n">>,
     <<"[", "W", "L", ":", "4", "3", "]", " ", "l", "o", "g", "i", "n">>}

WorklogIds == {0, 7, 1764, 99999}

RoundTripInit ==
    /\ rt_step = "worklog"
    /\ rt_id \in WorklogIds
    /\ rt_description \in Descriptions
    /\ rt_summary \in Summaries
    /\ rt_text = <<>>
    /\ rt_parsed = -1

InitRoundTrip ==
    /\ SyncIdle /\ ExtractIdle /\ CreateIdle /\ WeekIdle /\ ReadyIdle /\ HoursIdle
    /\ PrepareIdle /\ DatesIdle /\ MarkerIdle /\ DayDateIdle /\ FrameIdle /\ ConnectIdle
    /\ HoursTextIdle /\ RowIdle /\ RetryIdle /\ DeleteIdle /\ SaveIdle /\ RoundTripInit

\* create_entry() / add_unit4_entry(): the text typed into the Text field.
CreateText ==
    /\ rt_step = "worklog"
    /\ rt_step' = "written"
    /\ rt_text' = WrittenText(rt_id, DescriptionOf(rt_description, rt_summary))
    /\ UNCHANGED <<rt_id, rt_description, rt_summary, rt_parsed>>
    /\ UNCHANGED notRoundTripVars

\* _parse_text_to_entry(): wl_match = Patterns.WORKLOG_MARKER.search(text);
\* None without a match, else worklog_id = int(wl_match.group(1)).
ParseText ==
    /\ rt_step = "written"
    /\ rt_step' = "parsed"
    /\ LET wl_match == WorklogMarkerSearch(rt_text)
       IN  rt_parsed' = IF wl_match = <<>> THEN -1 ELSE IntOf(wl_match)
    /\ UNCHANGED <<rt_id, rt_description, rt_summary, rt_text>>
    /\ UNCHANGED notRoundTripVars

NextRoundTrip ==
    \/ CreateText
    \/ ParseText

SpecRoundTrip == InitRoundTrip /\ [][NextRoundTrip]_vars

\* ------------------------------------------------------------------ claims
\* One marked row per valid worklog, found by a scan, and no marker twice.
OnePerWorklog ==
    /\ \A id \in ValidIds :
          CountOf(grid, id) = 1 /\ id \in EntryIds(ExtractUnit4Entries(grid))
    /\ \A id \in RowIds(grid) : CountOf(grid, id) <= 1

\* C1: a second execute-mode run that follows a complete execute-mode run on
\* the same worklogs ends with exactly one marked row per valid worklog id, as
\* a scan finds them, and with no marker id on two rows (stated for the second
\* runs in which the remote UI carried out every action).
C1_Idempotent ==
    (run = 2 /\ pc = "done" /\ execute /\ ~fault
       /\ first.ended = "done" /\ first.execute)
    => OnePerWorklog

\* C2: in a run on a period that shows a locked-status label no mark, bulk
\* delete, add-row, form fill or save is issued, and the run's created and
\* deleted counts are zero.
C2_LockedGuard ==
    locked => (issued = {} /\ report.created = 0 /\ report.deleted = 0)

\* C3: a dry run issues no add-row, checkbox, bulk-delete or save action and
\* leaves the grid as it is; add_unit4_entry() with dry_run returns True with
\* no UI action; the run lists one intended creation per valid worklog and
\* one intended deletion per entry a scan of the grid finds.
C3_DryRunNoMutation ==
    /\ [](~execute =>
            /\ issued = {}
            /\ cycles = 0
            /\ Selected(grid) = {}
            /\ report.created = 0 /\ report.deleted = 0
            /\ \A i \in 1..Len(valid_worklogs), o \in CreateOutcomes :
                  AddUnit4Entry(grid, valid_worklogs[i], TRUE, o)
                      = [ok |-> TRUE, rows |-> grid, acts |-> {}]
            /\ (pc = "done" /\ valid_worklogs # <<>>) =>
                  /\ report.wouldCreate = Len(valid_worklogs)
                  /\ report.wouldDelete = Len(ExtractUnit4Entries(grid)))
    /\ [][(~execute /\ run' = run) => grid' = grid]_vars

\* C3 witness: a finished dry run over a week with two or more valid worklogs
\* and a marked entry in the grid.
C3_Witness ==
    /\ ~execute /\ pc = "done"
    /\ report.wouldCreate >= 2
    /\ report.wouldDelete >= 1

\* C4: an execute-mode run that follows a run killed in its mutation phase
\* ends with exactly one marked row per valid worklog id and with no other
\* marked row (stated for the second runs in which the remote UI carried out
\* every action).
C4_SelfHealing ==
    (run = 2 /\ pc = "done" /\ execute /\ ~fault /\ first.ended = "killed")
    => (OnePerWorklog /\ RowIds(grid) \subseteq ValidIds)

C6_AtMostThreeCycles == cycles <= 3

\* C6 (amended): a run executes the cycle at most 4 times: the first pass and
\* up to 3 retry passes.
C6_AtMostFourCycles == cycles <= 4

\* C6 witness: a run in its fourth cycle.
C6_Witness == cycles = 4

\* C7: when some but not all of the entries of the first deletion pass are
\* found again by the first re-scan, the marking loop of the second pass
\* marks every one of them: its count of marked rows is the number of
\* entries the re-scan found.
C7_SecondPassMarksSurvivors ==
    (pc = "rebulk" /\ delete_pass = 0 /\ cycles = 1
       /\ EntryIds(remaining) \subseteq EntryIds(existing_entries)
       /\ 0 < Len(remaining) /\ Len(remaining) < Len(existing_entries))
    => marked_count = Len(remaining)

\* C8: the list extract_entries() builds never holds a marker id twice,
\* whatever the frames' title, input and text queries deliver; an id
\* delivered from a title and from the visible text of a frame, and an id
\* delivered more than once in any way, has exactly one entry.
C8_ExtractionDeduplicates ==
    /\ \A i, j \in 1..Len(page_entries) :
          page_entries[i].worklog_id = page_entries[j].worklog_id => i = j
    /\ \A id \in both \cup repeated :
          Cardinality({i \in 1..Len(page_entries) : page_entries[i].worklog_id = id}) = 1

\* C8 witness: a finished call in which one id came from a title and from the
\* visible text of the same frame and another id came from two frames.
C8_Witness ==
    /\ strategy = "returned"
    /\ frames_to_search >= 2
    /\ both # {}
    /\ repeated \ both # {}

\* C9: every marker id a row of the grid carries is the id of an entry of
\* the scan of the grid: right after the scan of sync(), before any UI
\* action of the run, existing_entries has an entry for every marked row.
C9_NoMarkedRowDropped ==
    (pc \in {"mark", "create"} /\ idx = 1 /\ issued = {} /\ cycles = 0)
    => RowIds(grid) \subseteq EntryIds(existing_entries)

\* The place of a UI action in the creation protocol.
Rank(a) ==
    CASE a = "addRow" -> 1
      [] a = "openDetail" -> 2
      [] a = "ArbAuft" -> 3
      [] a = "Aktivitaet" -> 4
      [] a = "Text" -> 5
      [] a = "Ticketno" -> 6
      [] a = "hours" -> 7
      [] OTHER -> 8

\* C10: the UI actions of a create call come in the order add-row click,
\* detail dialog, cost-code fill, activity fill, description fill, ticket-key
\* fill, hours fill, each at most once; every fill comes after the add-row
\* click and the opening of the dialog.
C10_CreationOrder ==
    /\ \A i, j \in 1..Len(trace) : i < j => Rank(trace[i]) < Rank(trace[j]) \/ Rank(trace[j]) = 8
    /\ \A i \in 1..Len(trace) :
          Rank(trace[i]) \in 3..7 => (trace[1] = "addRow" /\ trace[2] = "openDetail")

\* C10 witness: a call that made all four labeled fills and filled the hours.
C10_Witness ==
    /\ step = "ok"
    /\ trace = <<"addRow", "openDetail", "ArbAuft", "Aktivitaet", "Text", "Ticketno", "hours">>

\* C11: a create call in which the cost-code fill or the description fill
\* failed has, at its return, called the Cancel click as its last UI action,
\* returned False, and made neither the hours fill nor the OK click.
C11_AbortOnMandatoryField ==
    (step = "returned" /\ fill_no > Len(FormFills) /\ ~(arbauft_ok /\ text_ok))
    => /\ result = "False"
       /\ trace # <<>> /\ trace[Len(trace)] = "cancel"
       /\ \A i \in 1..Len(trace) : trace[i] \notin {"hours", "ok"}

\* C11 witness: a returned call whose cost-code fill worked and whose
\* description fill failed.
C11_Witness ==
    /\ step = "returned"
    /\ fill_no > Len(FormFills)
    /\ arbauft_ok /\ ~text_ok
    /\ result = "False"

\* C12: whenever a create call has returned False, the detail dialog is
\* closed.
C12_ClosedDialogOnFailure ==
    (step = "returned" /\ result = "False") => ~dialog_open

\* C13: a set_week call makes at most 3 attempts; when it has returned True
\* its last attempt is the only one that found the input and typed without
\* an exception; when it has returned False it made 3 attempts and each
\* ended with the field not found or with an exception; every attempt after
\* the first, and no other, began with the re-resolution of the content
\* frame.
C13_SetWeekRetry ==
    /\ Len(history) <= 3
    /\ attempt <= 2
    /\ sw_result = "True" =>
          /\ sw_step = "returned"
          /\ history # <<>> /\ history[Len(history)] = "ok"
          /\ \A i \in 1..(Len(history) - 1) : history[i] \in {"not_found", "exception"}
    /\ sw_result = "False" =>
          /\ Len(history) = 3
          /\ \A i \in 1..3 : history[i] \in {"not_found", "exception"}
    /\ sw_step \in {"find", "type"} => refreshed = 1..attempt
    /\ sw_step = "returned" => refreshed = 1..(Len(history) - 1)

\* C13 witness: a call that returned True at its third attempt, after an
\* attempt without the field and an attempt with an exception, the frame
\* re-resolved before the second and the third.
C13_Witness ==
    /\ sw_result = "True"
    /\ history = <<"not_found", "exception", "ok">>
    /\ refreshed = {1, 2}

C15_TimedOutDistinctFromLocked ==
    (rd_impl = "Unit4Browser.wait_for_ready" /\ rd_outcome = "TIMED_OUT")
    => rd_result # ReturnLocked

\* C16: a call that fills the hours of a day makes at most 5 attempts; each
\* attempt starts with the expand of the section and the read of its
\* structure; a call that returned True without the operator ended its last
\* attempt, and no earlier one, with the value set and committed; a call
\* whose 5 attempts all failed has asked the operator to enter the hours and
\* has not returned False.
C16_HoursRetryThenManual ==
    /\ Len(fh_history) <= 5
    /\ fh_attempt <= 4
    /\ \A i \in 1..Len(fh_trace) :
          /\ i = 1 => fh_trace[i] = "expand"
          /\ i = 2 => fh_trace[i] = "read"
    /\ (fh_result = "True" /\ ~fh_manual) =>
          /\ fh_history[Len(fh_history)] \in {"ok", "blind"}
          /\ \A i \in 1..(Len(fh_history) - 1) : fh_history[i] \notin {"ok", "blind"}
    /\ (fh_step = "returned" /\ fh_result # "raised" /\ Len(fh_history) = 5
            /\ \A i \in 1..5 : fh_history[i] \notin {"ok", "blind"}) =>
          /\ fh_manual
          /\ fh_result # "False"

\* C17: for every prompt answered with a well-formed cost-code the mapping
\* file, as it is when the next worklog is handled, is the file of before
\* the prompt with exactly one entry more, the entry of the worklog's
\* account key with that cost-code, and the worklog is in valid with that
\* cost-code from then on.
C17_ResolvedAtPrompt ==
    \A i \in 1..Len(prompts) :
        ArbauftMatch(prompts[i].answer) =>
            /\ DOMAIN prompts[i].after = (DOMAIN prompts[i].before) \cup {prompts[i].account_key}
            /\ Cardinality(DOMAIN prompts[i].after) = Cardinality(DOMAIN prompts[i].before) + 1
            /\ prompts[i].after[prompts[i].account_key] = prompts[i].answer
            /\ \A k \in DOMAIN prompts[i].before :
                  k # prompts[i].account_key => prompts[i].after[k] = prompts[i].before[k]
            /\ i = Len(prompts) => mapping_file = prompts[i].after
            /\ \E j \in 1..Len(pp_valid) :
                  /\ pp_valid[j].worklog_id = prompts[i].worklog_id
                  /\ pp_valid[j].arbauft = prompts[i].answer

\* C18: after a prompt for account A was answered with a well-formed
\* cost-code, no later prompt of the run is for a worklog of account A.
C18_SameRunBenefit ==
    \A i \in 1..Len(prompts) : \A j \in 1..Len(prompts) :
        (i < j /\ ArbauftMatch(prompts[i].answer))
        => prompts[j].account_key # prompts[i].account_key

\* C19: a prompt answered with text that is not empty, not SKIP and not a
\* well-formed cost-code is followed by a prompt for the same worklog, and no
\* value of the mapping file is such a text.
C19_MalformedAnswerReprompts ==
    /\ \A i \in 1..Len(prompts) :
          (~IsSkip(prompts[i].answer) /\ ~ArbauftMatch(prompts[i].answer)) =>
              /\ i < Len(prompts) => prompts[i + 1].worklog_id = prompts[i].worklog_id
              /\ i = Len(prompts) =>
                    /\ pp_step \in {"prompt", "aborted"}
                    /\ pp_i <= Len(unmapped_worklogs)
                    /\ unmapped_worklogs[pp_i].worklog_id = prompts[i].worklog_id
    /\ \A k \in DOMAIN mapping_file : ArbauftMatch(mapping_file[k])

\* C20: once an issue lookup came back with a status other than 200 the run
\* is over before the browser is started, and no worklog of such an issue is
\* in unmapped.
C20_FailFastOnReadSide ==
    /\ failed_lookups # {} => pp_step = "aborted"
    /\ \A i \in 1..Len(unmapped_worklogs) : unmapped_worklogs[i].issue_id \notin failed_lookups

\* C21 as stated: a dry run never opens the remote UI, waits for the page
\* or extracts entries.
C21_DryRunStopsAfterStep4 ==
    ~execute => (pc \in {"start", "done"} /\ existing_entries = <<>>)

\* C21: a dry run with no valid worklog ends at the empty check; with valid
\* worklogs it opens the remote UI, waits for the page and scans the grid,
\* then lists the intended deletions from that scan and the intended
\* creations and ends; it never enters a marking, confirmation, bulk-delete
\* or rescan step and never saves.
C21_DryRunReadsThenReports ==
    /\ [](~execute =>
            /\ pc \in {"start", "ready", "extract", "create", "done"}
            /\ "save" \notin issued
            /\ valid_worklogs = <<>> => pc \in {"start", "done"}
            /\ pc = "create" => existing_entries = ExtractUnit4Entries(grid)
            /\ (pc = "done" /\ valid_worklogs # <<>>) =>
                  /\ existing_entries = ExtractUnit4Entries(grid)
                  /\ report.wouldDelete = Len(existing_entries))
    /\ [][(~execute /\ run' = run /\ pc' # pc) =>
             \/ pc = "start" /\ pc' = "ready" /\ valid_worklogs # <<>>
             \/ pc = "start" /\ pc' = "done" /\ valid_worklogs = <<>>
             \/ pc = "ready" /\ pc' = "extract"
             \/ pc = "extract" /\ pc' = "create"
             \/ pc = "create" /\ pc' = "done"]_vars

\* C21 witness: a finished dry run of the first invocation whose scan found
\* one marked entry and listed it as the one intended deletion.
C21_Witness ==
    /\ ~execute /\ run = 1 /\ pc = "done"
    /\ Len(existing_entries) = 1
    /\ report.wouldDelete = 1

\* C22: for a valid period code YYYYWW get_week_dates returns the texts of
\* two dates: the first is a Monday and lies in ISO week WW of ISO year YYYY,
\* the second is the first plus 6 days and a Sunday.
C22_WeekDateRange ==
    date_range # <<>> =>
        LET start == DateOf(date_range[1])
            end == DateOf(date_range[2])
        IN  /\ Len(date_range[1]) = 10 /\ Len(date_range[2]) = 10
            /\ Weekday(start) = 0
            /\ IsoWeekOf(start) = [year |-> IntOf(SubSeq(week_arg, 1, 4)),
                                   week |-> IntOf(SubSeq(week_arg, 5, 6))]
            /\ end = start + 6
            /\ Weekday(end) = 6

\* C22 witness: week 1 of 2026, whose Monday is 29 December 2025.
C22_Witness ==
    /\ week_arg = <<"2", "0", "2", "6", "0", "1">>
    /\ date_range = <<<<"2", "0", "2", "5", "-", "1", "2", "-", "2", "9">>,
                      <<"2", "0", "2", "6", "-", "0", "1", "-", "0", "4">>>>

\* C23 as stated: the search in "[ID:1764] working on concept" gives 1764 and
\* the search in "[ID:99999]" gives 99999.
C23_MarkerFromIdToken ==
    /\ (mk_searched /\ mk_text = <<"[", "I", "D", ":", "1", "7", "6", "4", "]", " ", "w", "o", "r", "k", "i", "n", "g", " ", "o", "n", " ", "c", "o", "n", "c", "e", "p", "t">>)
          => mk_found = <<"1", "7", "6", "4">>
    /\ (mk_searched /\ mk_text = <<"[", "I", "D", ":", "9", "9", "9", "9", "9", "]">>)
          => mk_found = <<"9", "9", "9", "9", "9">>

\* C23: the search gives the digits of the first token "[WL:" digits "]" of
\* the text, wherever in the text the token starts, and no match for a text
\* without such a token.
C23_MarkerFromWlToken ==
    mk_searched =>
        LET Closes(i, j) ==
                /\ j > i + 4
                /\ j <= Len(mk_text)
                /\ mk_text[j] = "]"
                /\ \A k \in (i + 4)..(j - 1) : mk_text[k] \in Digit
            tokens == {i \in 1..Len(mk_text) :
                          /\ i + 3 <= Len(mk_text)
                          /\ mk_text[i] = "[" /\ mk_text[i + 1] = "W"
                          /\ mk_text[i + 2] = "L" /\ mk_text[i + 3] = ":"
                          /\ \E j \in 1..Len(mk_text) : Closes(i, j)}
        IN  IF tokens = {}
            THEN mk_found = <<>>
            ELSE LET i == CHOOSE t \in tokens : \A u \in tokens : t <= u
                     j == CHOOSE c \in 1..Len(mk_text) : Closes(i, c)
                 IN  mk_found = SubSeq(mk_text, i + 4, j - 1)

\* C23 witness: a marker with other text before it is found.
C23_Witness ==
    /\ mk_searched
    /\ mk_text = <<"x", " ", "[", "W", "L", ":", "9", "9", "9", "9", "9", "]">>
    /\ mk_found = <<"9", "9", "9", "9", "9">>

\* C24: a label written as a German or English day abbreviation, whitespace,
\* a numeral, a slash or a dot and a numeral is matched, the three groups
\* being the abbreviation and the two numerals; a label with another first
\* word, with the numerals first, or an empty one is not matched; nor is a
\* label that lacks the whitespace, a numeral or the separator.
C24_DayDateLabel ==
    dd_matched =>
        LET WellFormed ==
                /\ dd_parts.lead = <<>>
                /\ dd_parts.word \in {<<"M", "o">>, <<"D", "i">>, <<"M", "i">>, <<"D", "o">>, <<"F", "r">>,
                                      <<"S", "a">>, <<"S", "o">>, <<"M", "o", "n">>, <<"T", "u", "e">>, <<"W", "e", "d">>,
                                      <<"T", "h", "u">>, <<"F", "r", "i">>, <<"S", "a", "t">>, <<"S", "u", "n">>}
                /\ dd_parts.blank # <<>>
                /\ dd_parts.first # <<>>
                /\ dd_parts.sep \in {<<"/">>, <<".">>}
                /\ dd_parts.second # <<>>
        IN  IF WellFormed
            THEN dd_groups = <<dd_parts.word, dd_parts.first, dd_parts.second>>
            ELSE dd_groups = <<>>

\* C24 witness: the label "Mon 27.11", with the dot, is matched with the
\* English abbreviation, whose first two letters are a German one.
C24_Witness ==
    /\ dd_matched
    /\ LabelOf(dd_parts) = <<"M", "o", "n", " ", "2", "7", ".", "1", "1">>
    /\ dd_groups = <<<<"M", "o", "n">>, <<"2", "7">>, <<"1", "1">>>>

\* C27: a call of get_content_frame that did not answer from its cache
\* returned a frame of the page: the first one with the content-container
\* URL if there is one; else the first one that holds the period input, the
\* frames whose probe raises being passed over; else the main frame.
C27_FrameResolutionOrder ==
    (fm_result # 0 /\ ~fm_from_cache) =>
        LET Has(kind) == \E i \in 1..Len(page_frames) : page_frames[i] = kind
            IsFirst(kind) ==
                /\ page_frames[fm_result] = kind
                /\ \A j \in 1..(fm_result - 1) : page_frames[j] # kind
        IN  /\ fm_result \in 1..Len(page_frames)
            /\ Has("content") => IsFirst("content")
            /\ (~Has("content") /\ Has("period")) => IsFirst("period")
            /\ (~Has("content") /\ ~Has("period")) => fm_result = 1

\* C27 witness: a page whose first inner frame raises at the probe, whose
\* second holds the period input and none has the URL: the second inner
\* frame was returned.
C27_Witness ==
    /\ page_frames = <<"other", "raises", "period">>
    /\ ~fm_from_cache
    /\ fm_result = 3

\* Position of an event in the trace of the connect call (0: not in it).
TraceIndex(event) ==
    IF \E i \in 1..Len(cn_trace) : cn_trace[i] = event
    THEN CHOOSE i \in 1..Len(cn_trace) : cn_trace[i] = event
    ELSE 0

\* C25: Unit4Browser.navigate_to_zeiterfassung() asks for the interactive
\* login exactly when the title holds "Login" or "Anmelden" or cannot be
\* read; the session file is written only in a call that asked for the login,
\* after the prompt and before any menu step; without a login indicator the
\* session file is as it was when the call began.
C25_SessionPersistence ==
    (cn_impl = "Unit4Browser.navigate_to_zeiterfassung"
        /\ cn_step \notin {"none", "goto", "session"})
    => LET indicator ==
               \/ cn_title_raises
               \/ \E w \in 1..Len(cn_title) : cn_title[w] \in {"Login", "Anmelden"}
       IN  /\ (TraceIndex("login_prompt") # 0) <=> indicator
           /\ session_file # session_before =>
                 /\ TraceIndex("login_prompt") # 0
                 /\ TraceIndex("session_saved") = TraceIndex("login_prompt") + 1
                 /\ \A i \in 1..TraceIndex("session_saved") :
                       cn_trace[i] \notin {"menu_click", "menu_prompt"}
           /\ TraceIndex("session_saved") # 0 => session_file = "saved by this run"
           /\ ~indicator => session_file = session_before

\* C25 witness: a call that found the title "Anmelden", asked for the login,
\* wrote the session file and went on to click the menu entry.
C25_Witness ==
    /\ cn_impl = "Unit4Browser.navigate_to_zeiterfassung"
    /\ cn_title = <<"Anmelden">>
    /\ cn_trace = <<"goto", "login_prompt", "session_saved", "menu_click">>
    /\ session_before = "saved by an earlier run"
    /\ session_file = "saved by this run"

\* C28: the wait for the period input makes at most 15 polls and resolves
\* the content frame anew in each; a call that returned from it returned the
\* frame of its last poll, which is the only poll that saw the period input
\* or, with none, the fifteenth; the wait itself never raises.
C28_ConnectPolling ==
    /\ cn_i <= 14
    /\ cn_resolved <= 15
    /\ cn_step = "poll" => (cn_resolved = cn_i /\ ~cn_seen)
    /\ cn_step = "returned" =>
          /\ cn_resolved = cn_i + 1
          /\ cn_result = cn_frame
          /\ cn_result \in ResolvedFrames
          /\ ~cn_seen => cn_resolved = 15
    /\ cn_resolved > 0 => cn_step \in {"poll", "returned"}

\* C28 witness: a call that saw the period input in none of its 15 polls
\* and returned the frame of the last one.
C28_Witness ==
    /\ cn_step = "returned"
    /\ cn_resolved = 15
    /\ ~cn_seen
    /\ cn_result = 2

\* C29: a call that is past the menu step has clicked the menu entry or has
\* asked the operator to navigate.
C29_MenuFallback ==
    cn_step \in {"load", "poll", "returned"} =>
        (TraceIndex("menu_click") # 0 \/ TraceIndex("menu_prompt") # 0)

\* C26: the text typed into the hours cell has at most two digits after the
\* point, the number h of hundredths it names is a nearest one to
\* seconds / 3600 (100 * seconds differs from 3600 * h by 1800 at most), and
\* the hours value of the worklog is h / 100.
C26_HoursRounding ==
    hr_step = "typed" =>
        LET point == CHOOSE i \in 1..Len(hr_typed) : hr_typed[i] = "."
            whole == IntOf(SubSeq(hr_typed, 1, point - 1))
            places == Len(hr_typed) - point
            after == IntOf(SubSeq(hr_typed, point + 1, Len(hr_typed)))
            h == whole * 100 + (IF places = 1 THEN after * 10 ELSE after)
        IN  /\ places <= 2
            /\ 100 * hr_seconds - 3600 * h <= 1800
            /\ 3600 * h - 100 * hr_seconds <= 1800
            /\ hr_hours.num * 100 = h * hr_hours.den

\* C30: in every deletion pass, the first one and every retry pass, the
\* bulk-delete control is clicked (a bulk-delete cycle is counted) only from
\* the position the run is in when the operator's pause of that pass has
\* returned; and that position is entered from the pause alone.
C30_ConfirmationPrecedesBulkDelete ==
    [][/\ (cycles' = cycles + 1) => pc = "bulk"
       /\ (pc' = "bulk" /\ pc # "bulk") => pc = "confirm"]_vars

\* C31: a create that was not a dry-run returned True only when one of its
\* polls saw the add-row control (the polls were not used up without it),
\* and so with the dialog closed; the polls are bounded.
C31_ClosureVerifiedOnSuccess ==
    /\ tries <= VerifyTriesBrowser
    /\ (step = "returned" /\ result = "True" /\ ~dry_run_arg) =>
           (tries < VerifyTries /\ ~dialog_open)

\* C32: with the day row of the target date rendered (either locale, slash
\* or dot), the row taken is never another one, and it is the row of the
\* target date whenever the year the rule gives to the label (the current
\* year, minus one for a December label in January, plus one for a January
\* label in December) is the year of the target date.
C32_RowSelectionByDate ==
    rs_step = "selected" =>
        LET date == FromOrdinal(rs_target)
            row == RenderLabel(rs_target, rs_render)
            year == IF date.month = 12 /\ rs_now.month = 1 THEN rs_now.year - 1
                    ELSE IF date.month = 1 /\ rs_now.month = 12 THEN rs_now.year + 1
                    ELSE rs_now.year
        IN  /\ rs_selected # <<>> => rs_selected = row
            /\ year = date.year => rs_selected = row

\* The distinct members of a sequence, in the order of their first
\* occurrence.
RECURSIVE FirstOccurrences(_)
FirstOccurrences(ids) ==
    IF ids = <<>> THEN <<>>
    ELSE LET before == FirstOccurrences(SubSeq(ids, 1, Len(ids) - 1))
             last == ids[Len(ids)]
         IN  IF \E i \in 1..Len(before) : before[i] = last THEN before
             ELSE Append(before, last)

\* C33: in a process_worklogs run the issue lookup was called once for each
\* distinct issue id of the worklogs gone through, in the order of their
\* first occurrence, an id whose lookup found nothing included; the
\* worklogs of one issue id have the same issue key, summary and account
\* key.
C33_IssueLookupCache ==
    pp_step \in {"process", "prompt", "connect", "done"} =>
        LET seen == IF pp_step = "process" THEN pp_i - 1 ELSE Len(raw_worklogs)
            out == pp_valid \o unmapped_worklogs
        IN  /\ lookups = FirstOccurrences([i \in 1..seen |-> raw_worklogs[i].issue])
            /\ \A i, j \in 1..Len(out) :
                   out[i].issue_id = out[j].issue_id =>
                       /\ out[i].issue_key = out[j].issue_key
                       /\ out[i].issue_summary = out[j].issue_summary
                       /\ out[i].account_key = out[j].account_key

\* C33 witness: two worklogs of one issue whose lookup found nothing were
\* gone through with one lookup.
C33_Witness ==
    /\ pp_step = "prompt"
    /\ Len(raw_worklogs) = 2
    /\ raw_worklogs[1].issue = raw_worklogs[2].issue
    /\ failed_lookups = {raw_worklogs[1].issue}
    /\ lookups = <<raw_worklogs[1].issue>>

\* C34: an execute-mode run with valid worklogs that has ended went through
\* the whole list, one create for each worklog in list order, recorded as
\* failed the worklogs whose create did not succeed, and issued the save
\* after the last create.
C34_PartialFailureTolerantCreation ==
    (execute /\ valid_worklogs # <<>> /\ pc \in {"done", "crashed"}) =>
        /\ idx = Len(valid_worklogs) + 1
        /\ "save" \in issued
        /\ errors \subseteq {valid_worklogs[i].worklog_id : i \in 1..Len(valid_worklogs)}
        /\ report.created = Len(valid_worklogs) - Cardinality(errors)

\* C35: a retry_async call that returned made at most max_attempts calls of
\* the operation; a call of the operation that did not raise was the last
\* thing it did and its value was returned; with every call raising there
\* were max_attempts of them and None was returned; a raising call other
\* than the last possible one was followed by one on_retry call (when a
\* callback was passed) with its 1-based number and its exception and then
\* by the delay; the last possible call was followed by nothing; and no
\* on_retry call and no delay stands anywhere else.
C35_RetryAsync ==
    ra_step = "returned" =>
        LET len == Len(ra_trace)
            ops == {i \in 1..len : ra_trace[i].ev = "operation"}
            after == IF ra_on_retry THEN 2 ELSE 1
        IN  /\ Cardinality(ops) <= ra_max
            /\ \A i \in ops : ra_trace[i].n = Cardinality({j \in ops : j <= i})
            /\ \A i \in ops :
                   ra_trace[i].exc = "" => (i = len /\ ra_result = ra_trace[i].value)
            /\ (\A i \in ops : ra_trace[i].exc # "") =>
                   (ra_result = "None" /\ Cardinality(ops) = ra_max)
            /\ \A i \in ops :
                   (ra_trace[i].exc # "" /\ ra_trace[i].n < ra_max) =>
                       /\ i + after <= len
                       /\ ra_on_retry =>
                              ra_trace[i + 1] = OnRetryCall(ra_trace[i].n, ra_trace[i].exc)
                       /\ ra_trace[i + after] = SleepCall
            /\ \A i \in ops :
                   (ra_trace[i].exc # "" /\ ra_trace[i].n = ra_max) => i = len
            /\ \A j \in 1..len :
                   ra_trace[j].ev = "on_retry" =>
                       (ra_on_retry /\ j > 1 /\ ra_trace[j - 1].ev = "operation")
            /\ \A j \in 1..len :
                   ra_trace[j].ev = "sleep" =>
                       (j > after /\ ra_trace[j - after].ev = "operation")

\* C35 witness: three attempts that all raised, with a callback: two
\* on_retry calls and two delays, None returned.
C35_Witness ==
    /\ ra_step = "returned"
    /\ ra_max = 3
    /\ ra_on_retry
    /\ ra_result = "None"
    /\ Len(ra_trace) = 7
    /\ ra_trace[5] = OnRetryCall(2, "E2")
    /\ ra_trace[7].ev = "operation"

\* C36: a call of get_content_frame that follows, with no navigation in
\* between, a call that looked the frame up (refresh=True, or nothing
\* cached) and that does not refresh (it answers from the cache, or finds
\* nothing cached) returns the frame the call before it returned.
C36_FrameCacheConsistency ==
    [][(fm_calls' = fm_calls + 1 /\ fm_result # 0 /\ ~fm_from_cache
            /\ (fm_from_cache' \/ content_frame = 0))
          => fm_result' = fm_result]_vars

\* C37: after the marking step of a deletion pass, of the first pass and of
\* a retry pass, the row located for each entry of the pass has its checkbox
\* selected.
C37_MarkingNotUndone ==
    /\ pc = "confirm" =>
           \A k \in 1..Len(existing_entries) :
               LET i == LocateRow(grid, existing_entries[k].worklog_id)
               IN  i # 0 => grid[i].sel
    /\ pc = "rebulk" =>
           \A k \in 1..Len(remaining) :
               LET i == LocateRowRetry(grid, remaining[k].worklog_id)
               IN  i # 0 => grid[i].sel

\* C38: a delete_entries call in execute mode that returned gave the number
\* of entries whose checkbox was clicked, between 0 and the number of
\* entries passed, whether the bulk-delete control was found or not and
\* whatever rows disappeared; the bulk-delete control, its confirmation and
\* the save were invoked only with that number positive.
C38_DeleteEntriesResult ==
    (de_step = "returned" /\ ~de_dry_run) =>
        LET invoked == {de_trace[i] : i \in 1..Len(de_trace)}
        IN  /\ de_result = Cardinality(de_clicked)
            /\ de_result >= 0
            /\ de_result <= de_count
            /\ (invoked \cap {"Delete", "Delete not found", "Yes", "OK", "save"}) # {}
                   => de_result > 0

\* C38 witness: two checkboxes clicked, the control found, one row gone: 2
\* is returned.
C38_Witness ==
    /\ de_step = "returned"
    /\ ~de_dry_run
    /\ Cardinality(de_clicked) = 2
    /\ Cardinality(de_gone) = 1
    /\ de_count = 3
    /\ de_result = 2

\* C39: a save that has ended tried the Save control of the content frame,
\* then the one of the page, then Ctrl+S, in this order and up to the first
\* that worked; its result is true on every path; and after the save the OK
\* dialog was dismissed: OK was clicked in the frame and in the page, and no
\* OK dialog is left open.
C39_SaveFallbackOrder ==
    sv_step = "returned" =>
        LET ways == <<"Save in frame", "Save in page", "Control+s">>
            used == IF sv_controls.frame_save THEN 1
                    ELSE IF sv_controls.page_save THEN 2
                    ELSE 3
        IN  /\ Len(sv_trace) >= used
            /\ SubSeq(sv_trace, 1, used) = SubSeq(ways, 1, used)
            /\ sv_saved
            /\ SubSeq(sv_trace, used + 1, Len(sv_trace)) = <<"OK in frame", "OK in page">>
            /\ ~sv_dialog

\* C40: the text written by create for worklog id n is the marker for n, a
\* space, then the first 60 characters of the stripped description (of the
\* issue summary when the description is empty), and the extractor's marker
\* search reads id n from it, also when the description holds another marker
\* token.
C40_MarkerRoundTrip ==
    rt_step = "parsed" =>
        LET marker == <<"[", "W", "L", ":">> \o Decimal(rt_id) \o <<"]", " ">>
            source == IF rt_description = <<>> THEN rt_summary ELSE Strip(rt_description)
            rest == SubSeq(rt_text, Len(marker) + 1, Len(rt_text))
        IN  /\ rt_parsed = rt_id
            /\ Len(rt_text) >= Len(marker)
            /\ SubSeq(rt_text, 1, Len(marker)) = marker
            /\ Len(rest) = (IF Len(source) < 60 THEN Len(source) ELSE 60)
            /\ rest = SubSeq(source, 1, Len(rest))

\* A text whose description holds the marker token of another worklog has
\* been written and parsed.
C40_Witness ==
    /\ rt_step = "parsed"
    /\ rt_parsed = rt_id
    /\ WorklogMarkerSearch(Strip(rt_description)) = <<"4", "2">>
    /\ WorklogMarkerSearch(SubSeq(rt_text, 2, Len(rt_text))) = <<"4", "2">>

====
